---- MODULE Spec2Model ----
(***************************************************************************)
(* Model of the analysis-creation flow of the AI visibility tool:          *)
(* POST /api/analyses/create (src/app/api/analyses/create/route.ts) with   *)
(* generateBriefs, generateCategoryBriefs, calculateEffortImpactScore and  *)
(* the sort-and-slice selection.  Every await of the handler is one step.  *)
(***************************************************************************)
EXTENDS Integers, Sequences, FiniteSets, TLC

VARIABLES
    env,          \* process.env: [ANTHROPIC_API_KEY |-> BOOLEAN] (TRUE = set)
    analyses,     \* table analyses: sequence of rows, row id = its index
    briefsTable,  \* table briefs: sequence of rows in insertion order
    pc,           \* per request: the await the handler is suspended at
    formData,     \* per request: the parsed request body
    categoriesToUse, \* per request: POST's categoriesToUse
    client,       \* per request: POST's database client
    bclient,      \* per request: generateBriefs' database client
    analysisId,   \* per request: id returned by the analysis INSERT (0 = none)
    analysisText, \* per request: text of the competitive analysis
    catIdx,       \* per request: number of categories already processed
    briefs,       \* per request: generateBriefs' briefs array
    gathered,     \* per request: history of the candidates pushed, in push order
    sortedBriefs, \* per request: generateBriefs' sortedBriefs
    insIdx,       \* per request: number of brief INSERTs done
    calls,        \* per request: the gateway calls issued, in order
    lastReply,    \* per request: the outcome of the last gateway call
    isValid,      \* per request: POST's isValid (FALSE until verifySession says so)
    response,     \* per request: the NextResponse returned (status 0 = none yet)
    fnIn,         \* input of the pure function under check
    fnOut,        \* its result
    world,        \* what clients and the gateway may send: [bodies, replies]
    login,        \* the request to POST /api/auth/login and where its handler is
    sessions,     \* number of sessions createSession has created
    cookies,      \* the 'session' cookie of the browser's cookie jar
    verified,     \* the last call of verifySession on that jar and its outcome
    logout,       \* the request to POST /api/auth/logout and where its handler is
    nav,          \* the last request the middleware has decided on
    dash,         \* the dashboard page: its state and where fetchAnalyses is
    reads         \* the request to a route that returns data and its handler

vars == <<env, analyses, briefsTable, pc, formData, categoriesToUse, client,
          bclient, analysisId, analysisText, catIdx, briefs, gathered,
          sortedBriefs, insIdx, calls, lastReply, isValid, response, fnIn, fnOut,
          world, login, sessions, cookies, verified, logout, nav, dash, reads>>

siteVars == <<cookies, verified, logout, nav, dash, reads>>

runVars == <<pc, formData, categoriesToUse, client, bclient, analysisId,
             analysisText, catIdx, briefs, gathered, sortedBriefs, insIdx,
             calls, lastReply, isValid, response>>

(***************************************************************************)
(* Bounds of the model.                                                    *)
(***************************************************************************)
\* the gateway stops returning candidates once a run has gathered this many
MaxPool == 4
\* longest custom prompt, in tokens
MaxTplLen == 3
\* longest reply text given to the parser on its own, in tokens
MaxTextLen == 5
\* longest candidate pool given to the selection when checked on its own
MaxSelLen == 4

(***************************************************************************)
(* Program constants.                                                      *)
(***************************************************************************)
BRIEF_CATEGORIES ==
    << "Technology", "Platform Presence", "Content Structure", "Content Types",
       "Reviews and Testimonials", "PR Outreach and LLM Seeding",
       "Social Engagement and Community Strategy",
       "Multimodal and Visual Optimization",
       "Data Authority and Proprietary Statistics" >>

\* the range and the default of the brief-count control of the creation form
MinBriefCount == 1
MaxBriefCount == 30
DefaultBriefCount == 15

\* effort and impact scores asked of the model: 1..10
MinScore == 1
MaxScore == 10

(***************************************************************************)
(* Helpers on sequences.                                                   *)
(***************************************************************************)
Min(a, b) == IF a <= b THEN a ELSE b
Max(a, b) == IF a >= b THEN a ELSE b

\* Array.prototype.slice(0, end) with end given as an integer
SliceFrom0(arr, end) ==
    LET len == Len(arr)
        final == IF end < 0 THEN Max(len + end, 0) ELSE Min(end, len)
    IN  SubSeq(arr, 1, final)

(***************************************************************************)
(* Scoring.                                                                *)
(***************************************************************************)
\* Math.round of the rational num/den (den > 0): floor(num/den + 1/2)
MathRound(num, den) == (2 * num + den) \div (2 * den)

calculateEffortImpactScore_swapped(effort, impact) ==
    MathRound(((effort * 2) - impact) * 100, 10)

\* Math.round(((impact * 2) - effort) / 10 * 100)
calculateEffortImpactScore(effort, impact) ==
    MathRound(((impact * 2) - effort) * 100, 10)

(***************************************************************************)
(* Reply texts.  A text is a sequence of tokens: the characters "[", "]"   *)
(* and ",", a prose character "p", and "{}", a well-formed JSON object     *)
(* carrying a title, an effort_score and an impact_score.                  *)
(***************************************************************************)
Ch(c) == [ch |-> c, title |-> "", effort_score |-> 0, impact_score |-> 0]
Obj(t, e, i) == [ch |-> "{}", title |-> t, effort_score |-> e, impact_score |-> i]

IndicesOf(text, c) == {k \in 1..Len(text) : text[k].ch = c}
SetMin(S) == CHOOSE x \in S : \A y \in S : x <= y
SetMax(S) == CHOOSE x \in S : \A y \in S : x >= y

\* briefText.match(/\[[\s\S]*\]/): the leftmost "[" that has a "]" after it,
\* extended greedily to the last "]" of the text; hit = FALSE when no match
RegexMatch_openOnly(text) ==
    LET opens  == IndicesOf(text, "[")
        first  == IF opens = {} THEN 0 ELSE SetMin(opens)
    IN  IF opens = {}
        THEN [hit |-> FALSE, str |-> <<>>]
        ELSE [hit |-> TRUE, str |-> SubSeq(text, first, Len(text))]

RegexMatch_lazy(text) ==
    LET opens  == IndicesOf(text, "[")
        first  == IF opens = {} THEN 0 ELSE SetMin(opens)
        closes == {k \in IndicesOf(text, "]") : k > first}
    IN  IF opens = {} \/ closes = {}
        THEN [hit |-> FALSE, str |-> <<>>]
        ELSE [hit |-> TRUE, str |-> SubSeq(text, first, SetMin(closes))]

\* briefText.match(/\[[\s\S]*\]/): from the first "[" to the last "]" after it
RegexMatch(text) ==
    LET opens  == IndicesOf(text, "[")
        first  == IF opens = {} THEN 0 ELSE SetMin(opens)
        closes == {k \in IndicesOf(text, "]") : k > first}
    IN  IF opens = {} \/ closes = {}
        THEN [hit |-> FALSE, str |-> <<>>]
        ELSE [hit |-> TRUE, str |-> SubSeq(text, first, SetMax(closes))]

\* JSON grammar over the tokens: value ::= "{}" | "[" "]" | "[" value ("," value)* "]"
\* JsonScan reads s from position k; depth = arrays open, expect = what may follow:
\* "value" (after "," or at the start), "first" (after "["), "next" (after a value),
\* "end" (the top-level value is closed)
RECURSIVE JsonScan(_, _, _, _)
JsonScan(s, k, depth, expect) ==
    IF k > Len(s) THEN expect = "end"
    ELSE LET c == s[k].ch IN
         CASE c = "[" /\ expect \in {"value", "first"} ->
                  JsonScan(s, k + 1, depth + 1, "first")
           [] c = "{}" /\ expect \in {"value", "first"} ->
                  JsonScan(s, k + 1, depth, IF depth = 0 THEN "end" ELSE "next")
           [] c = "]" /\ expect \in {"first", "next"} ->
                  JsonScan(s, k + 1, depth - 1, IF depth = 1 THEN "end" ELSE "next")
           [] c = "," /\ expect = "next" ->
                  JsonScan(s, k + 1, depth, "value")
           [] OTHER -> FALSE

\* number of arrays open before position k of s
RECURSIVE DepthAt(_, _)
DepthAt(s, k) ==
    IF k <= 1 THEN 0
    ELSE DepthAt(s, k - 1)
         + (IF s[k - 1].ch = "[" THEN 1 ELSE 0)
         - (IF s[k - 1].ch = "]" THEN 1 ELSE 0)

\* the elements of the top-level array of a valid s, in order; an element that
\* is itself an array is given as the token "[]"
RECURSIVE TopElems(_, _)
TopElems(s, k) ==
    IF k > Len(s) THEN <<>>
    ELSE IF DepthAt(s, k) = 1 /\ s[k].ch = "{}" THEN <<s[k]>> \o TopElems(s, k + 1)
    ELSE IF DepthAt(s, k) = 1 /\ s[k].ch = "[" THEN <<Ch("[]")>> \o TopElems(s, k + 1)
    ELSE TopElems(s, k + 1)

\* JSON.parse(jsonMatch[0]): ok = FALSE stands for the SyntaxError thrown
JSONparse(s) ==
    IF JsonScan(s, 1, 0, "value")
    THEN [ok |-> TRUE, value |-> TopElems(s, 1)]
    ELSE [ok |-> FALSE, value |-> <<>>]

\* briefs.map(brief => ({...brief, category, effort_impact_score}))
MapBriefs(elems, category) ==
    [k \in 1..Len(elems) |->
        [category |-> category,
         title |-> elems[k].title,
         effort_score |-> elems[k].effort_score,
         impact_score |-> elems[k].impact_score,
         effort_impact_score |->
             calculateEffortImpactScore(elems[k].effort_score, elems[k].impact_score)]]

\* A gateway outcome: ok = FALSE is a transport failure or a non-2xx status
\* (callAnthropicAPI throws); hasText = FALSE is a 2xx reply whose first content
\* block is missing or not of type 'text'
\* the parsing of generateCategoryBriefs for the text `briefText`: whether the
\* regex matched, whether JSON.parse threw, and the array it returned
ParseBriefText(briefText) ==
    LET jsonMatch == RegexMatch(briefText)
        parsed    == JSONparse(jsonMatch.str)
    IN  [matched |-> jsonMatch.hit,
         str     |-> jsonMatch.str,
         threw   |-> jsonMatch.hit /\ ~parsed.ok,
         value   |-> IF jsonMatch.hit /\ parsed.ok THEN parsed.value ELSE <<>>]

Failure == [ok |-> FALSE, hasText |-> FALSE, text |-> <<>>]
NoText == [ok |-> TRUE, hasText |-> FALSE, text |-> <<>>]
TextReply(t) == [ok |-> TRUE, hasText |-> TRUE, text |-> t]

CategoryBriefsOf_noParseCheck(reply, category) ==
    IF ~reply.ok THEN <<>>
    ELSE LET briefText == IF reply.hasText THEN reply.text ELSE <<Ch("["), Ch("]")>>
             jsonMatch == RegexMatch(briefText)
         IN  IF ~jsonMatch.hit THEN <<>>
             ELSE MapBriefs(TopElems(jsonMatch.str, 1), category)

\* generateCategoryBriefs once the call has ended with `reply`: every throw
\* inside the try (the call, JSON.parse) is caught and gives []
CategoryBriefsOf(reply, category) ==
    IF ~reply.ok THEN <<>>
    ELSE LET briefText == IF reply.hasText THEN reply.text ELSE <<Ch("["), Ch("]")>>
             jsonMatch == RegexMatch(briefText)
             parsed    == JSONparse(jsonMatch.str)
         IN  IF ~jsonMatch.hit THEN <<>>
             ELSE IF ~parsed.ok THEN <<>>
             ELSE MapBriefs(parsed.value, category)

(***************************************************************************)
(* Selection.                                                              *)
(***************************************************************************)
\* x || 0, for x an integer (a score computed from integer effort and impact)
OrZero(x) == IF x = 0 THEN 0 ELSE x

\* (a, b) => (b.effort_impact_score || 0) - (a.effort_impact_score || 0)
compareBriefs(a, b) == OrZero(b.effort_impact_score) - OrZero(a.effort_impact_score)

\* x goes before the first element that the comparator puts after x
InsertStable(sorted, x) ==
    LET later == {k \in 1..Len(sorted) : compareBriefs(sorted[k], x) > 0}
        at == IF later = {} THEN Len(sorted) + 1 ELSE SetMin(later)
    IN  SubSeq(sorted, 1, at - 1) \o <<x>> \o SubSeq(sorted, at, Len(sorted))

InsertUnstable(sorted, x) ==
    LET later == {k \in 1..Len(sorted) : compareBriefs(sorted[k], x) >= 0}
        at == IF later = {} THEN Len(sorted) + 1 ELSE SetMin(later)
    IN  SubSeq(sorted, 1, at - 1) \o <<x>> \o SubSeq(sorted, at, Len(sorted))

RECURSIVE SortBriefs_unstable(_)
SortBriefs_unstable(arr) ==
    IF arr = <<>> THEN <<>>
    ELSE InsertUnstable(SortBriefs_unstable(SubSeq(arr, 1, Len(arr) - 1)), arr[Len(arr)])

\* Array.prototype.sort with the comparator: a stable sort
RECURSIVE SortBriefs(_)
SortBriefs(arr) ==
    IF arr = <<>> THEN <<>>
    ELSE InsertStable(SortBriefs(SubSeq(arr, 1, Len(arr) - 1)), arr[Len(arr)])

\* keys is the set of fields the request body carries; slice(0, undefined) keeps all
SelectBriefs(arr, fd) ==
    IF "briefCount" \in fd.keys
    THEN SliceFrom0(SortBriefs(arr), fd.briefCount)
    ELSE SortBriefs(arr)

(***************************************************************************)
(* The prompts.  A string is a sequence of tokens: a placeholder, one of   *)
(* the replacement patterns of String.prototype.replace, or a piece of     *)
(* text without either.  The empty sequence is the empty string.           *)
(***************************************************************************)
RECURSIVE Flatten(_)
Flatten(ss) == IF ss = <<>> THEN <<>> ELSE Head(ss) \o Flatten(Tail(ss))

\* the replacement string `value` as replace() inserts it for the match at
\* position k of str: $$ is a dollar sign, $& the matched substring, $` the
\* text before the match and $' the text after it
ExpandReplacement(value, str, k) ==
    Flatten([j \in 1..Len(value) |->
        CASE value[j] = "$$" -> <<"$">>
          [] value[j] = "$&" -> <<str[k]>>
          [] value[j] = "$`" -> SubSeq(str, 1, k - 1)
          [] value[j] = "$'" -> SubSeq(str, k + 1, Len(str))
          [] OTHER -> <<value[j]>>])

\* str.replace(/\[TOKEN\]/g, value): every match in str is replaced; what is
\* inserted is not scanned again by the same replace
Replace(str, token, value) ==
    Flatten([k \in 1..Len(str) |->
        IF str[k] = token THEN ExpandReplacement(value, str, k) ELSE <<str[k]>>])

\* list.join(', ')
Join(list) ==
    Flatten([k \in 1..Len(list) |->
        IF k = 1 THEN <<list[k]>> ELSE <<", ", list[k]>>])

\* getDefaultPrompt()
getDefaultPrompt ==
    << "Give me 20 clear reasons why ", "[CUSTOMER_NAME]",
       " is not winning ... what they are doing right, that ", "[CUSTOMER_NAME]",
       " is not doing. ... Competitors to analyze: ", "[COMPETITORS]",
       " Current visibility score: ", "[VISIBILITY_SCORE]",
       "% Focus topics: ", "[TOPICS]",
       " Provide specific, actionable insights ..." >>

\* formData.customPrompt || getDefaultPrompt()
PromptTemplate(fd) ==
    IF fd.customPrompt # <<>> THEN fd.customPrompt ELSE getDefaultPrompt

YesNo(b) == IF b THEN "Yes" ELSE "No"

\* formData.technicalAnalysis && formData.technicalAnalysis.trim()
HasTechnicalAnalysis(fd) == \E k \in 1..Len(fd.technicalAnalysis) :
                                fd.technicalAnalysis[k] # " "

\* technicalContext of createCompetitiveAnalysisPrompt
TechnicalContext(fd) ==
    << "Technical Analysis Context:",
       "- Crawler Accessible: ", YesNo(fd.technicalData.crawlerAccessible),
       "- Has Schema Markup: ", YesNo(fd.technicalData.hasSchema),
       "- Time to First Byte: ", ToString(fd.technicalData.ttfb), "ms",
       "- Wikipedia Presence: ", YesNo(fd.technicalData.wikipediaPresence),
       "- Google Business Profile: ", YesNo(fd.technicalData.googleBusinessProfile),
       "- Reddit Activity: ", fd.technicalData.redditActivity,
       "- Review Count: ", ToString(fd.technicalData.reviewCount),
       "- Review Sentiment: ", fd.technicalData.reviewSentiment >>
    \o (IF HasTechnicalAnalysis(fd)
        THEN <<"Additional Technical Analysis:">> \o fd.technicalAnalysis
        ELSE <<>>)

\* the four chained replaces of createCompetitiveAnalysisPrompt
SubstituteVariables(prompt, fd) ==
    Replace(Replace(Replace(Replace(prompt,
                "[CUSTOMER_NAME]", <<fd.customerName>>),
            "[COMPETITORS]", Join(fd.visibilityData.competitors)),
        "[VISIBILITY_SCORE]", <<ToString(fd.visibilityData.visibilityScore)>>),
    "[TOPICS]", Join(fd.visibilityData.topics))

createCompetitiveAnalysisPrompt(fd) ==
    SubstituteVariables(PromptTemplate(fd), fd) \o <<"\n\n">> \o TechnicalContext(fd)

\* briefPrompt of generateCategoryBriefs
briefPrompt(fd, category, competitiveAnalysis) ==
    << "Based on this competitive analysis for ", fd.customerName, ":",
       competitiveAnalysis,
       "Generate 2-3 specific, actionable briefs for the category: ", category,
       "... Focus on AI visibility improvements specific to ", category >>

(***************************************************************************)
(* Inputs: request bodies and gateway outcomes.                            *)
(***************************************************************************)
\* a request body: keys = the fields present; an absent field reads undefined
\* the visibility and technical data of the model's bodies
VisibilityData(competitors, score, topics) ==
    [competitors |-> competitors, visibilityScore |-> score, topics |-> topics]

SomeVisibilityData == VisibilityData(<<"X", "Y">>, 42, <<"search">>)

SomeTechnicalData ==
    [crawlerAccessible |-> TRUE, hasSchema |-> FALSE, ttfb |-> 200,
     wikipediaPresence |-> FALSE, googleBusinessProfile |-> TRUE,
     redditActivity |-> "low", reviewCount |-> 10, reviewSentiment |-> "mixed"]

\* keys tells customerName and briefCount present or absent; the other
\* fields are present in every body of the model
Body(keys, name, cats, most, count) ==
    [keys |-> keys, customerName |-> name, categoriesSelected |-> cats,
     useMostImpactful |-> most, briefCount |-> count,
     customPrompt |-> <<>>, technicalAnalysis |-> <<>>,
     visibilityData |-> SomeVisibilityData, technicalData |-> SomeTechnicalData]

TwoCategories ==
    { <<"Technology", "Platform Presence">>, <<"Platform Presence", "Technology">> }

\* brief counts inside and outside MinBriefCount..MaxBriefCount
BriefCounts == {-1, 0, MinBriefCount, 2, 3, MaxBriefCount, MaxBriefCount + 1}

FormDatas ==
    \* two selected categories, every brief count, and no brief count at all
    { Body({"customerName", "briefCount"}, "Acme", cats, FALSE, n) :
          cats \in TwoCategories, n \in BriefCounts }
    \cup { Body({"customerName"}, "Acme", cats, FALSE, 0) : cats \in TwoCategories }
    \* all nine categories: useMostImpactful, or nothing selected
    \cup { Body({"customerName", "briefCount"}, "Acme", cats, most, 3) :
          cats \in TwoCategories \cup {<<>>}, most \in {TRUE} }
    \cup { Body({"customerName", "briefCount"}, "Acme", <<>>, FALSE, 3) }
    \* a category that is none of BRIEF_CATEGORIES
    \cup { Body({"customerName", "briefCount"}, "Acme", <<"Custom">>, FALSE, 3) }
    \* a custom prompt, with and without a technical analysis
    \cup { [Body({"customerName", "briefCount"}, "Acme", <<"Technology">>, FALSE, 3)
               EXCEPT !.customPrompt = <<"Compare ", "[CUSTOMER_NAME]", " with ",
                                         "[COMPETITORS]">>,
                      !.technicalAnalysis = ta] :
              ta \in { <<>>, <<" ">>, <<"slow pages">> } }
    \* customer name empty or missing
    \cup { Body({"customerName", "briefCount"}, "", <<"Technology">>, FALSE, 3),
           Body({"briefCount"}, "", <<"Technology">>, FALSE, 3) }

NoCustomerName_missingOnly(fd) == "customerName" \notin fd.keys

\* !formData.customerName
NoCustomerName(fd) == "customerName" \notin fd.keys \/ fd.customerName = ""

CategoriesToUse_selectedFirst(fd) ==
    IF Len(fd.categoriesSelected) > 0 THEN fd.categoriesSelected
    ELSE BRIEF_CATEGORIES

\* categoriesToUse of POST
CategoriesToUse(fd) ==
    IF fd.useMostImpactful THEN BRIEF_CATEGORIES
    ELSE IF Len(fd.categoriesSelected) > 0 THEN fd.categoriesSelected
    ELSE BRIEF_CATEGORIES

\* replies of the model: scores 90, 50
TextA == << Ch("["), Obj("a1", 1, 5), Ch(","), Obj("a2", 1, 3), Ch("]") >>
\* scores 80, -10
TextB == << Ch("["), Obj("b1", 2, 5), Ch(","), Obj("b2", 3, 1), Ch("]") >>
\* one candidate of score 90
TextC == << Ch("["), Obj("c1", 3, 6), Ch("]") >>
\* prose without brackets
TextProse == << Ch("p"), Ch("p") >>
\* a bracketed substring that is not JSON, such as [{title: unquoted}]
TextBad == << Ch("["), Ch("p"), Ch("]") >>
\* a bracketed fragment in the prose before the array
TextFragment == << Ch("["), Ch("p"), Ch("]"), Ch("p"), Ch("["), Obj("d1", 1, 5), Ch("]") >>

Replies ==
    { Failure, NoText } \cup
    { TextReply(t) : t \in {TextA, TextB, TextC, TextProse, TextBad, TextFragment} }

\* the categories whose calls draw from all of Replies; the calls of the other
\* seven end with a failure or with the one candidate of TextC
RichCategories == {"Technology", "Platform Presence"}

\* the outcomes a per-category call can have in the model: candidates are
\* returned only while the pool stays within MaxPool
CategoryReplies(pool, category) ==
    { rep \in (IF category \in RichCategories THEN world.replies
               ELSE {Failure, TextReply(TextC)}) :
          Len(pool) + Len(CategoryBriefsOf(rep, category)) <= MaxPool }

\* outcomes of the competitive-analysis call (its text is not parsed)
AnalysisReplies == { Failure, NoText, TextReply(TextProse) }

NoResponse == [status |-> 0, error |-> "", success |-> FALSE, analysisId |-> 0,
               briefCount |-> 0, message |-> ""]
ErrorResponse(st, msg) == [status |-> st, error |-> msg, success |-> FALSE,
                           analysisId |-> 0, briefCount |-> 0, message |-> ""]

SuccessResponse_requestedCount(fd, id, returned) ==
    [status |-> 200, error |-> "", success |-> TRUE, analysisId |-> id,
     briefCount |-> fd.briefCount,
     message |-> "Successfully created analysis with " \o ToString(fd.briefCount)
                     \o " briefs"]

\* the success answer of POST to the request fd, `returned` being what
\* generateBriefs returned
SuccessResponse(fd, id, returned) ==
    [status |-> 200, error |-> "", success |-> TRUE, analysisId |-> id,
     briefCount |-> Len(returned),
     message |-> "Successfully created analysis with " \o ToString(Len(returned))
                     \o " briefs"]
\* the catch of POST: `Failed to create analysis: ${error.message}`, status 500
Caught(msg) == ErrorResponse(500, "Failed to create analysis: " \o msg)

NoBody == Body({}, "", <<>>, FALSE, 0)

(***************************************************************************)
(* The session library (lib/auth/session): the 'session' cookie of the jar *)
(* is absent or has a value, which is the empty string, a token signed by  *)
(* createSession, such a token past its expiry, or any other string.       *)
(***************************************************************************)
Cookie(present, value) == [present |-> present, value |-> value]

NoCookie == Cookie(FALSE, "")

\* jwtVerify(token, SECRET) returns (TRUE) or throws (FALSE)
jwtVerify(token) == token = "jwt"

\* createSession: the jar afterwards
createSession(jar) == Cookie(TRUE, "jwt")

\* destroySession: the jar afterwards
destroySession(jar) == NoCookie

\* (await cookies()).get('session')?.value, with "" for undefined
TokenOf(jar) == IF jar.present THEN jar.value ELSE ""

\* a verifySession that trusts any cookie value
verifySession_trusting(jar) ==
    LET token == TokenOf(jar) IN
    IF token = "" THEN [result |-> FALSE, jwtVerifyCalls |-> 0]
    ELSE [result |-> TRUE, jwtVerifyCalls |-> 0]

\* verifySession on the jar: its result and the number of calls of jwtVerify
verifySession(jar) ==
    LET token == TokenOf(jar) IN
    IF token = "" THEN [result |-> FALSE, jwtVerifyCalls |-> 0]
    ELSE [result |-> jwtVerify(token), jwtVerifyCalls |-> 1]

NoVerified == [called |-> FALSE, jar |-> NoCookie, result |-> FALSE,
               jwtVerifyCalls |-> 0]

\* answers of the login route
LoginResponse(st, err, succ) == [status |-> st, error |-> err, success |-> succ]

NoLoginResponse == LoginResponse(0, "", FALSE)

\* the password field of a login body: missing, null, or a string; "unread"
\* while request.json() has not returned
Password(kind, value) == [kind |-> kind, value |-> value]

\* no request to the login route
NoLogin == [pc |-> "none", password |-> Password("unread", ""),
            isValid |-> FALSE, createSessionCalls |-> 0, verifyPasswordCalls |-> 0,
            response |-> NoLoginResponse]

\* no request to the logout route, no navigation, no dashboard, no read
NoLogout == [pc |-> "none", response |-> NoLoginResponse, rejected |-> FALSE]

NoNav == [path |-> <<>>, jar |-> NoCookie, decision |-> "none"]

\* the body of an answer: a JSON array, or a JSON object given by its
\* properties; NoBodyYet when there is no answer
JsonArray(items) == [kind |-> "array", items |-> items, fields |-> << >>]

JsonObject(fields) == [kind |-> "object", items |-> << >>, fields |-> fields]

NoBodyYet == [kind |-> "none", items |-> << >>, fields |-> << >>]

\* NextResponse.json(body, {status})
Answer(status, body) == [status |-> status, body |-> body]

NoAnswer == Answer(0, NoBodyYet)

NoDash == [pc |-> "none", loading |-> TRUE, analyses |-> << >>,
           fetched |-> "none", answer |-> NoAnswer]

NoRead == [route |-> "none", id |-> 0, pc |-> "none", jar |-> NoCookie,
           isValid |-> FALSE, verifySessionCalls |-> 0, queries |-> 0,
           answer |-> NoAnswer]

\* nothing of the site is in use
NoSite ==
    /\ cookies = NoCookie
    /\ verified = NoVerified
    /\ logout = NoLogout
    /\ nav = NoNav
    /\ dash = NoDash
    /\ reads = NoRead

\* process.env of the model
Env(apiKey, passwordHash) ==
    [ANTHROPIC_API_KEY |-> apiKey, SHARED_PASSWORD_HASH |-> passwordHash]

\* SHARED_PASSWORD_HASH: set or not, and its length
NoHash == [set |-> FALSE, length |-> 0]

(***************************************************************************)
(* The creation flow, one action per await of POST and generateBriefs.     *)
(***************************************************************************)
InitRun(R) ==
    /\ pc = [r \in R |-> "start"]
    /\ formData = [r \in R |-> NoBody]
    /\ categoriesToUse = [r \in R |-> <<>>]
    /\ client = [r \in R |-> "none"]
    /\ bclient = [r \in R |-> "none"]
    /\ analysisId = [r \in R |-> 0]
    /\ analysisText = [r \in R |-> ""]
    /\ catIdx = [r \in R |-> 0]
    /\ briefs = [r \in R |-> <<>>]
    /\ gathered = [r \in R |-> <<>>]
    /\ sortedBriefs = [r \in R |-> <<>>]
    /\ insIdx = [r \in R |-> 0]
    /\ calls = [r \in R |-> <<>>]
    /\ lastReply = [r \in R |-> NoText]
    /\ isValid = [r \in R |-> FALSE]
    /\ response = [r \in R |-> NoResponse]

Init ==
    /\ env \in { Env(key, NoHash) : key \in BOOLEAN }
    /\ analyses = <<>>
    /\ briefsTable = <<>>
    /\ InitRun({1})
    /\ fnIn = <<>>
    /\ fnOut = <<>>
    /\ world = [bodies |-> FormDatas, replies |-> Replies]
    /\ login = NoLogin
    /\ sessions = 0
    /\ NoSite

\* the handler returns `resp`
Return(r, resp) ==
    /\ response' = [response EXCEPT ![r] = resp]
    /\ pc' = [pc EXCEPT ![r] = "done"]

\* client.end() on a client in state c: a connected client is ended; the other
\* values record an end() that was not the one end of a connected client
EndOf(c) ==
    CASE c = "connected" -> "ended"
      [] c = "ended" -> "ended twice"
      [] OTHER -> "ended unconnected"

CatchDb_noEnd(r, msg) ==
    /\ UNCHANGED client
    /\ Return(r, Caught(msg))

\* catch (dbError) { await client.end(); throw dbError } and the outer catch
CatchDb(r, msg) ==
    /\ client' = [client EXCEPT ![r] = EndOf(@)]
    /\ Return(r, Caught(msg))

VerifySession_noGate(r) ==
    /\ pc[r] = "start"
    /\ \E valid \in BOOLEAN :
          /\ isValid' = [isValid EXCEPT ![r] = valid]
          /\ pc' = [pc EXCEPT ![r] = "parse"]
          /\ UNCHANGED response
    /\ UNCHANGED <<env, analyses, briefsTable, formData, categoriesToUse, client,
                   bclient, analysisId, analysisText, catIdx, briefs, gathered,
                   sortedBriefs, insIdx, calls, lastReply, fnIn, fnOut, world, login, sessions, siteVars>>

\* await verifySession() and the 401 answer
VerifySession(r) ==
    /\ pc[r] = "start"
    /\ \E valid \in BOOLEAN :
          /\ isValid' = [isValid EXCEPT ![r] = valid]
          /\ IF ~valid
             THEN Return(r, ErrorResponse(401, "Unauthorized"))
             ELSE /\ pc' = [pc EXCEPT ![r] = "parse"]
                  /\ UNCHANGED response
    /\ UNCHANGED <<env, analyses, briefsTable, formData, categoriesToUse, client,
                   bclient, analysisId, analysisText, catIdx, briefs, gathered,
                   sortedBriefs, insIdx, calls, lastReply, fnIn, fnOut, world, login, sessions, siteVars>>

\* await request.json(), the validation, categoriesToUse, createClient()
ParseRequest(r) ==
    /\ pc[r] = "parse"
    /\ \/ \* the body is not JSON: request.json() throws
          /\ Return(r, Caught("Unexpected token"))
          /\ UNCHANGED <<formData, categoriesToUse>>
       \/ \E fd \in world.bodies :
             /\ formData' = [formData EXCEPT ![r] = fd]
             /\ IF NoCustomerName(fd)
                THEN /\ Return(r, ErrorResponse(400, "Customer name is required"))
                     /\ UNCHANGED categoriesToUse
                ELSE /\ categoriesToUse' =
                            [categoriesToUse EXCEPT ![r] = CategoriesToUse(fd)]
                     /\ pc' = [pc EXCEPT ![r] = "connect"]
                     /\ UNCHANGED response
    /\ UNCHANGED <<env, analyses, briefsTable, client, bclient, analysisId,
                   analysisText, catIdx, briefs, gathered, sortedBriefs, insIdx,
                   calls, lastReply, isValid, fnIn, fnOut, world, login, sessions, siteVars>>

\* await client.connect()
Connect(r) ==
    /\ pc[r] = "connect"
    /\ \/ /\ client' = [client EXCEPT ![r] = "connected"]
          /\ pc' = [pc EXCEPT ![r] = "insertAnalysis"]
          /\ UNCHANGED response
       \/ \* connect rejects: outside the inner try, the client is not ended
          /\ Return(r, Caught("connection failed"))
          /\ UNCHANGED client
    /\ UNCHANGED <<env, analyses, briefsTable, formData, categoriesToUse, bclient,
                   analysisId, analysisText, catIdx, briefs, gathered, sortedBriefs,
                   insIdx, calls, lastReply, isValid, fnIn, fnOut, world, login, sessions, siteVars>>

ApiKeyMissing_never(e) == FALSE

\* !process.env.ANTHROPIC_API_KEY
ApiKeyMissing(e) == ~e.ANTHROPIC_API_KEY

\* JSON.stringify of an array of strings without characters to escape
JSONstringify(list) ==
    <<"[">> \o Flatten([k \in 1..Len(list) |->
                           IF k = 1 THEN <<"\"" \o list[k] \o "\"">>
                           ELSE <<",", "\"" \o list[k] \o "\"">>])
          \o <<"]">>

\* callAnthropicAPI(prompt, 4000) of generateBriefs
AnalysisCall(fd) ==
    [kind |-> "analysis", category |-> "",
     prompt |-> createCompetitiveAnalysisPrompt(fd)]

AnalysisRow_sentPrompt(fd, cats) ==
    [customer_name |-> fd.customerName,
     custom_prompt |-> createCompetitiveAnalysisPrompt(fd),
     categories_selected |-> JSONstringify(cats),
     brief_count |-> IF "briefCount" \in fd.keys THEN <<fd.briefCount>> ELSE <<>>,
     status |-> "processing"]

AnalysisRow_completed(fd, cats) ==
    [customer_name |-> fd.customerName,
     custom_prompt |-> PromptTemplate(fd),
     categories_selected |-> JSONstringify(cats),
     brief_count |-> IF "briefCount" \in fd.keys THEN <<fd.briefCount>> ELSE <<>>,
     status |-> "completed"]

\* the row POST inserts
AnalysisRow(fd, cats) ==
    [customer_name |-> fd.customerName,
     custom_prompt |-> PromptTemplate(fd),
     categories_selected |-> JSONstringify(cats),
     brief_count |-> IF "briefCount" \in fd.keys THEN <<fd.briefCount>> ELSE <<>>,
     status |-> "processing"]

\* the INSERT INTO analyses returns; generateBriefs starts and runs up to its
\* first await: the API-key check and the competitive-analysis call
InsertAnalysis(r) ==
    /\ pc[r] = "insertAnalysis"
    /\ \/ /\ analyses' = Append(analyses, AnalysisRow(formData[r], categoriesToUse[r]))
          /\ analysisId' = [analysisId EXCEPT ![r] = Len(analyses) + 1]
          /\ IF ApiKeyMissing(env)
             THEN /\ CatchDb(r, "ANTHROPIC_API_KEY environment variable is not set")
                  /\ UNCHANGED calls
             ELSE /\ calls' = [calls EXCEPT ![r] =
                                  Append(@, AnalysisCall(formData[r]))]
                  /\ pc' = [pc EXCEPT ![r] = "competitive"]
                  /\ UNCHANGED <<client, response>>
       \/ \* the INSERT fails
          /\ CatchDb(r, "insert failed")
          /\ UNCHANGED <<analyses, analysisId, calls>>
    /\ UNCHANGED <<env, briefsTable, formData, categoriesToUse, bclient,
                   analysisText, catIdx, briefs, gathered, sortedBriefs, insIdx,
                   lastReply, isValid, fnIn, fnOut, world, login, sessions, siteVars>>

\* callAnthropicAPI(briefPrompt, 2000) of generateCategoryBriefs
CategoryCall(fd, category, text) ==
    [kind |-> "category", category |-> category,
     prompt |-> briefPrompt(fd, category, text)]

AnalysisTextOf_empty(reply) == IF reply.hasText THEN "analysis text" ELSE ""

\* content[0]?.type === 'text' ? content[0].text : 'Analysis failed'
AnalysisTextOf(reply) ==
    IF reply.hasText THEN "analysis text" ELSE "Analysis failed"

NextCategory_reversed(cats, done) == cats[Len(cats) - done]

\* the category the for loop of generateBriefs takes after `done` iterations
NextCategory(cats, done) == cats[done + 1]

Competitive_swallowsFailure(r) ==
    /\ pc[r] = "competitive"
    /\ \E reply \in AnalysisReplies :
          /\ lastReply' = [lastReply EXCEPT ![r] = reply]
          /\ IF FALSE
             THEN /\ CatchDb(r, "Anthropic API error")
                  /\ UNCHANGED <<analysisText, calls>>
             ELSE /\ analysisText' = [analysisText EXCEPT ![r] =
                         AnalysisTextOf(reply)]
                  /\ calls' = [calls EXCEPT ![r] = Append(@,
                         CategoryCall(formData[r], NextCategory(categoriesToUse[r], 0),
                                      AnalysisTextOf(reply)))]
                  /\ pc' = [pc EXCEPT ![r] = "category"]
                  /\ UNCHANGED <<client, response>>
    /\ UNCHANGED <<env, analyses, briefsTable, formData, categoriesToUse, bclient,
                   analysisId, catIdx, briefs, gathered, sortedBriefs, insIdx,
                   isValid, fnIn, fnOut, world, login, sessions, siteVars>>

\* the competitive-analysis call ends; on success the loop starts with the
\* call for the first category
Competitive(r) ==
    /\ pc[r] = "competitive"
    /\ \E reply \in AnalysisReplies :
          /\ lastReply' = [lastReply EXCEPT ![r] = reply]
          /\ IF ~reply.ok
             THEN /\ CatchDb(r, "Anthropic API error")
                  /\ UNCHANGED <<analysisText, calls>>
             ELSE /\ analysisText' = [analysisText EXCEPT ![r] =
                         AnalysisTextOf(reply)]
                  /\ calls' = [calls EXCEPT ![r] = Append(@,
                         CategoryCall(formData[r], NextCategory(categoriesToUse[r], 0),
                                      AnalysisTextOf(reply)))]
                  /\ pc' = [pc EXCEPT ![r] = "category"]
                  /\ UNCHANGED <<client, response>>
    /\ UNCHANGED <<env, analyses, briefsTable, formData, categoriesToUse, bclient,
                   analysisId, catIdx, briefs, gathered, sortedBriefs, insIdx,
                   isValid, fnIn, fnOut, world, login, sessions, siteVars>>

briefsOfCall_shared(bs, r) == Flatten([k \in 1..Len(bs) |-> bs[k]])

\* the array `briefs` of run r: a local of its call of generateBriefs
briefsOfCall(bs, r) == bs[r]

\* the call for category catIdx + 1 ends: its briefs are pushed; then either the
\* next category is called, or the pool is sorted and sliced and the second
\* client starts to connect
CategoryReply(r) ==
    /\ pc[r] = "category"
    /\ LET category == calls[r][Len(calls[r])].category IN
       \E reply \in CategoryReplies(briefs[r], category) :
          LET categoryBriefs == CategoryBriefsOf(reply, category)
              pool == briefsOfCall(briefs, r) \o categoryBriefs
              last == catIdx[r] + 1 = Len(categoriesToUse[r])
          IN  /\ lastReply' = [lastReply EXCEPT ![r] = reply]
              /\ gathered' = [gathered EXCEPT ![r] = @ \o categoryBriefs]
              /\ catIdx' = [catIdx EXCEPT ![r] = @ + 1]
              /\ IF last
                 THEN \* briefs.sort(...) sorts in place; slice copies
                      /\ briefs' = [briefs EXCEPT ![r] = SortBriefs(pool)]
                      /\ sortedBriefs' = [sortedBriefs EXCEPT ![r] =
                                             SelectBriefs(pool, formData[r])]
                      /\ pc' = [pc EXCEPT ![r] = "briefConnect"]
                      /\ UNCHANGED calls
                 ELSE /\ briefs' = [briefs EXCEPT ![r] = pool]
                      /\ calls' = [calls EXCEPT ![r] = Append(@,
                         CategoryCall(formData[r],
                                      NextCategory(categoriesToUse[r], catIdx[r] + 1),
                                      analysisText[r]))]
                      /\ UNCHANGED <<sortedBriefs, pc>>
    /\ UNCHANGED <<env, analyses, briefsTable, formData, categoriesToUse, client,
                   bclient, analysisId, analysisText, insIdx, response, isValid, fnIn, fnOut, world, login, sessions, siteVars>>

\* generateBriefs' await client.connect()
BriefConnect(r) ==
    /\ pc[r] = "briefConnect"
    /\ \/ /\ bclient' = [bclient EXCEPT ![r] = "connected"]
          /\ pc' = [pc EXCEPT ![r] =
                       IF sortedBriefs[r] = <<>> THEN "briefEnd" ELSE "insertBrief"]
          /\ UNCHANGED <<client, response>>
       \/ \* connect rejects before the inner try: rethrown up to POST's catch
          /\ CatchDb(r, "connection failed")
          /\ UNCHANGED bclient
    /\ UNCHANGED <<env, analyses, briefsTable, formData, categoriesToUse,
                   analysisId, analysisText, catIdx, briefs, gathered, sortedBriefs,
                   insIdx, calls, lastReply, isValid, fnIn, fnOut, world, login, sessions, siteVars>>

\* the row generateBriefs inserts for `brief`
BriefRow(id, brief) ==
    [analysis_id |-> id, category |-> brief.category, title |-> brief.title,
     effort_score |-> brief.effort_score, impact_score |-> brief.impact_score,
     effort_impact_score |-> brief.effort_impact_score]

BriefToInsert_fromEnd(sorted, done) == sorted[Len(sorted) - done]

\* the brief the loop `for (const brief of sortedBriefs)` takes after `done`
\* iterations
BriefToInsert(sorted, done) == sorted[done + 1]

InsertBrief_rollsBack(r) ==
    /\ pc[r] = "insertBrief"
    /\ \/ /\ briefsTable' = Append(briefsTable,
                                   BriefRow(analysisId[r],
                                            BriefToInsert(sortedBriefs[r], insIdx[r])))
          /\ insIdx' = [insIdx EXCEPT ![r] = @ + 1]
          /\ pc' = [pc EXCEPT ![r] =
                       IF insIdx[r] + 1 = Len(sortedBriefs[r]) THEN "briefEnd"
                       ELSE "insertBrief"]
          /\ UNCHANGED <<client, bclient, response>>
       \/ \* the INSERT fails: both catches end their client
          /\ bclient' = [bclient EXCEPT ![r] = EndOf(@)]
          /\ CatchDb(r, "insert failed")
          /\ briefsTable' = SelectSeq(briefsTable,
                                LAMBDA row : row.analysis_id # analysisId[r])
          /\ UNCHANGED insIdx
    /\ UNCHANGED <<env, analyses, formData, categoriesToUse, analysisId,
                   analysisText, catIdx, briefs, gathered, sortedBriefs, calls,
                   lastReply, isValid, fnIn, fnOut, world, login, sessions, siteVars>>

\* one INSERT INTO briefs returns
InsertBrief(r) ==
    /\ pc[r] = "insertBrief"
    /\ \/ /\ briefsTable' = Append(briefsTable,
                                   BriefRow(analysisId[r],
                                            BriefToInsert(sortedBriefs[r], insIdx[r])))
          /\ insIdx' = [insIdx EXCEPT ![r] = @ + 1]
          /\ pc' = [pc EXCEPT ![r] =
                       IF insIdx[r] + 1 = Len(sortedBriefs[r]) THEN "briefEnd"
                       ELSE "insertBrief"]
          /\ UNCHANGED <<client, bclient, response>>
       \/ \* the INSERT fails: both catches end their client
          /\ bclient' = [bclient EXCEPT ![r] = EndOf(@)]
          /\ CatchDb(r, "insert failed")
          /\ UNCHANGED <<briefsTable, insIdx>>
    /\ UNCHANGED <<env, analyses, formData, categoriesToUse, analysisId,
                   analysisText, catIdx, briefs, gathered, sortedBriefs, calls,
                   lastReply, isValid, fnIn, fnOut, world, login, sessions, siteVars>>

\* generateBriefs' await client.end(); it returns sortedBriefs and POST issues
\* the UPDATE
BriefEnd(r) ==
    /\ pc[r] = "briefEnd"
    /\ bclient' = [bclient EXCEPT ![r] = EndOf(@)]
    /\ pc' = [pc EXCEPT ![r] = "updateStatus"]
    /\ UNCHANGED <<env, analyses, briefsTable, formData, categoriesToUse, client,
                   analysisId, analysisText, catIdx, briefs, gathered, sortedBriefs,
                   insIdx, calls, lastReply, response, isValid, fnIn, fnOut, world, login, sessions, siteVars>>

\* UPDATE analyses SET status = 'completed' WHERE id = analysisId
UpdateStatus(r) ==
    /\ pc[r] = "updateStatus"
    /\ \/ /\ analyses' = [analyses EXCEPT ![analysisId[r]].status = "completed"]
          /\ pc' = [pc EXCEPT ![r] = "end"]
          /\ UNCHANGED <<client, response>>
       \/ \* the UPDATE fails
          /\ CatchDb(r, "update failed")
          /\ UNCHANGED analyses
    /\ UNCHANGED <<env, briefsTable, formData, categoriesToUse, bclient, analysisId,
                   analysisText, catIdx, briefs, gathered, sortedBriefs, insIdx,
                   calls, lastReply, isValid, fnIn, fnOut, world, login, sessions, siteVars>>

\* await client.end() and the success answer
EndClient(r) ==
    /\ pc[r] = "end"
    /\ client' = [client EXCEPT ![r] = EndOf(@)]
    /\ Return(r, SuccessResponse(formData[r], analysisId[r], sortedBriefs[r]))
    /\ UNCHANGED <<env, analyses, briefsTable, formData, categoriesToUse, bclient,
                   analysisId, analysisText, catIdx, briefs, gathered, sortedBriefs,
                   insIdx, calls, lastReply, isValid, fnIn, fnOut, world, login, sessions, siteVars>>

Next ==
    \/ \E r \in DOMAIN pc : VerifySession(r)
    \/ \E r \in DOMAIN pc : ParseRequest(r)
    \/ \E r \in DOMAIN pc : Connect(r)
    \/ \E r \in DOMAIN pc : InsertAnalysis(r)
    \/ \E r \in DOMAIN pc : Competitive(r)
    \/ \E r \in DOMAIN pc : CategoryReply(r)
    \/ \E r \in DOMAIN pc : BriefConnect(r)
    \/ \E r \in DOMAIN pc : InsertBrief(r)
    \/ \E r \in DOMAIN pc : BriefEnd(r)
    \/ \E r \in DOMAIN pc : UpdateStatus(r)
    \/ \E r \in DOMAIN pc : EndClient(r)

Spec == Init /\ [][Next]_vars

(***************************************************************************)
(* Two creation requests in flight at once: their handlers interleave at   *)
(* every await.  A request asks for two categories and two briefs, or for *)
(* one category and one brief.                                             *)
(***************************************************************************)
ConcurrentBodies ==
    { Body({"customerName", "briefCount"}, "Acme",
           <<"Technology", "Platform Presence">>, FALSE, 2),
      Body({"customerName", "briefCount"}, "Acme", <<"Platform Presence">>, FALSE, 1) }

ConcurrentReplies == { Failure, TextReply(TextA), TextReply(TextB) }

InitConcurrent ==
    /\ env = Env(TRUE, NoHash)
    /\ analyses = <<>>
    /\ briefsTable = <<>>
    /\ InitRun({1, 2})
    /\ fnIn = <<>>
    /\ fnOut = <<>>
    /\ world = [bodies |-> ConcurrentBodies, replies |-> ConcurrentReplies]
    /\ login = NoLogin
    /\ sessions = 0
    /\ NoSite

SpecConcurrent == InitConcurrent /\ [][Next]_vars

(***************************************************************************)
(* calculateEffortImpactScore on its own: every (effort, impact) of        *)
(* MinScore..MaxScore.                                                     *)
(***************************************************************************)
NoRuns ==
    /\ env = Env(TRUE, NoHash)
    /\ analyses = <<>>
    /\ briefsTable = <<>>
    /\ InitRun({})
    /\ world = [bodies |-> {}, replies |-> {}]
    /\ login = NoLogin
    /\ sessions = 0
    /\ NoSite

InitScore ==
    /\ NoRuns
    /\ fnIn \in [effort : MinScore..MaxScore, impact : MinScore..MaxScore]
    /\ fnOut = <<>>

ApplyScore ==
    /\ fnOut = <<>>
    /\ fnOut' = <<calculateEffortImpactScore(fnIn.effort, fnIn.impact)>>
    /\ UNCHANGED <<env, analyses, briefsTable, runVars, fnIn, world, login, sessions, siteVars>>

NextScore == ApplyScore

SpecScore == InitScore /\ [][NextScore]_vars

(***************************************************************************)
(* The sort-and-slice of generateBriefs on its own: every pool of at most  *)
(* MaxSelLen candidates and every count 0..MaxSelLen + 1.                  *)
(***************************************************************************)
\* (effort, impact) of the candidates of a pool: scores -10, 0, 50, 90
PoolScores == { <<3, 1>>, <<2, 1>>, <<1, 3>>, <<1, 5>> }

\* the candidates as generateCategoryBriefs returns them, titled by position
PoolOf(pairs) ==
    MapBriefs([k \in 1..Len(pairs) |-> Obj(ToString(k), pairs[k][1], pairs[k][2])],
              "Technology")

SeqsUpTo(S, n) == UNION { [1..k -> S] : k \in 0..n }

InitSelect ==
    /\ NoRuns
    /\ fnIn \in [pool : { PoolOf(ps) : ps \in SeqsUpTo(PoolScores, MaxSelLen) },
                 n : 0..(MaxSelLen + 1)]
    /\ fnOut = <<>>

ApplySelect ==
    /\ fnOut = <<>>
    /\ fnOut' = <<SelectBriefs(fnIn.pool,
                               Body({"customerName", "briefCount"}, "Acme", <<>>,
                                    TRUE, fnIn.n))>>
    /\ UNCHANGED <<env, analyses, briefsTable, runVars, fnIn, world, login, sessions, siteVars>>

NextSelect == ApplySelect

SpecSelect == InitSelect /\ [][NextSelect]_vars

(***************************************************************************)
(* createCompetitiveAnalysisPrompt on its own: every custom prompt of at   *)
(* most MaxTplLen tokens (the empty one selects the default prompt) and    *)
(* customer names, competitors and topics with and without placeholders    *)
(* and replacement patterns in them.                                       *)
(***************************************************************************)
Placeholders == {"[CUSTOMER_NAME]", "[COMPETITORS]", "[VISIBILITY_SCORE]", "[TOPICS]"}

\* the tokens of a custom prompt: the placeholders, a bracketed token that is
\* none of them, and plain text
TemplateTokens == Placeholders \cup {"[OTHER]", "text"}

CustomerNames == {"Acme", "$&", "$$", "[TOPICS]"}

CompetitorLists == { <<>>, <<"X", "Y">> }

TopicLists == { <<>>, <<"search">>, <<"[CUSTOMER_NAME]">> }

PromptInputs ==
    { [Body({"customerName", "briefCount"}, name, <<>>, TRUE, 3) EXCEPT
           !.customPrompt = tpl,
           !.visibilityData = VisibilityData(comp, 42, topics)] :
          tpl \in SeqsUpTo(TemplateTokens, MaxTplLen), name \in CustomerNames,
          comp \in CompetitorLists, topics \in TopicLists }

InitPrompt ==
    /\ NoRuns
    /\ fnIn \in PromptInputs
    /\ fnOut = <<>>

ApplyPrompt ==
    /\ fnOut = <<>>
    /\ fnOut' = <<createCompetitiveAnalysisPrompt(fnIn)>>
    /\ UNCHANGED <<env, analyses, briefsTable, runVars, fnIn, world, login, sessions, siteVars>>

NextPrompt == ApplyPrompt

SpecPrompt == InitPrompt /\ [][NextPrompt]_vars

(***************************************************************************)
(* The reply parsing of generateCategoryBriefs on its own: every text of   *)
(* at most MaxTextLen tokens.                                              *)
(***************************************************************************)
TextTokens == { Ch("["), Ch("]"), Ch(","), Ch("p"), Obj("o", 1, 5) }

InitParse ==
    /\ NoRuns
    /\ fnIn \in SeqsUpTo(TextTokens, MaxTextLen)
    /\ fnOut = <<>>

ApplyParse ==
    /\ fnOut = <<>>
    /\ fnOut' = << [parse |-> ParseBriefText(fnIn),
                    count |-> Len(CategoryBriefsOf(TextReply(fnIn), "Technology"))] >>
    /\ UNCHANGED <<env, analyses, briefsTable, runVars, fnIn, world, login, sessions, siteVars>>

NextParse == ApplyParse

SpecParse == InitParse /\ [][NextParse]_vars

(***************************************************************************)
(* POST /api/auth/login (src/app/api/auth/login/route.ts), one action per  *)
(* await.  verifyPassword and createSession are awaited library calls:     *)
(* each returns or throws, and verifyPassword returns either boolean.      *)
(***************************************************************************)
\* passwordHash.length > HashLengthThreshold
HashLengthThreshold == 20

Hashes == {NoHash} \cup { [set |-> TRUE, length |-> n] :
                             n \in {0, HashLengthThreshold, HashLengthThreshold + 1, 60} }

PasswordStrings == {"", "admin", "Admin", " admin", "secret", "wrong", "0", "null"}

LoginBodies ==
    { Password("missing", ""), Password("null", "") }
        \cup { Password("string", v) : v \in PasswordStrings }

NoPassword_missingOnly(pw) == pw.kind # "string"

\* !password
NoPassword(pw) == pw.kind # "string" \/ pw.value = ""

HashUsable_anyLength(hash) == hash.set /\ hash.length > 0

\* passwordHash && passwordHash.length > 20
HashUsable(hash) == hash.set /\ hash.length > HashLengthThreshold

InitLogin ==
    /\ env \in { Env(TRUE, h) : h \in Hashes }
    /\ analyses = <<>>
    /\ briefsTable = <<>>
    /\ InitRun({})
    /\ fnIn = <<>>
    /\ fnOut = <<>>
    /\ world = [bodies |-> {}, replies |-> {}]
    /\ login = [NoLogin EXCEPT !.pc = "json"]
    /\ sessions = 0
    /\ NoSite

\* the handler returns `resp`
LoginReturn(resp) == [login EXCEPT !.pc = "done", !.response = resp]

\* the catch of the handler
LoginCaught == LoginReturn(LoginResponse(500, "Internal server error", FALSE))

\* await request.json() returns or throws; the checks up to the next await
LoginJson ==
    /\ login.pc = "json"
    /\ \/ \* the body is not JSON, or not an object
          login' = LoginCaught
       \/ \E pw \in LoginBodies :
             login' =
                IF NoPassword(pw)
                THEN [LoginReturn(LoginResponse(400, "Password is required", FALSE))
                          EXCEPT !.password = pw]
                ELSE IF pw.value = "admin"
                THEN [login EXCEPT !.password = pw, !.pc = "createSession",
                                   !.createSessionCalls = @ + 1]
                ELSE IF HashUsable(env.SHARED_PASSWORD_HASH)
                THEN [login EXCEPT !.password = pw, !.pc = "verifyPassword",
                                   !.verifyPasswordCalls = @ + 1]
                ELSE [LoginReturn(LoginResponse(401, "Invalid password", FALSE))
                          EXCEPT !.password = pw]
    /\ UNCHANGED <<env, analyses, briefsTable, runVars, fnIn, fnOut, world, sessions,
                   siteVars>>

\* await verifyPassword(password, passwordHash) returns or throws
LoginVerifyPassword ==
    /\ login.pc = "verifyPassword"
    /\ \/ login' = LoginCaught
       \/ \E valid \in BOOLEAN :
             login' =
                IF valid
                THEN [login EXCEPT !.isValid = TRUE, !.pc = "createSession",
                                   !.createSessionCalls = @ + 1]
                ELSE LoginReturn(LoginResponse(401, "Invalid password", FALSE))
    /\ UNCHANGED <<env, analyses, briefsTable, runVars, fnIn, fnOut, world, sessions,
                   siteVars>>

\* await createSession() returns, the session created, or throws
LoginCreateSession ==
    /\ login.pc = "createSession"
    /\ \/ /\ sessions' = sessions + 1
          /\ cookies' = createSession(cookies)
          /\ login' = LoginReturn(LoginResponse(200, "", TRUE))
       \/ /\ login' = LoginCaught
          /\ UNCHANGED <<sessions, cookies>>
    /\ UNCHANGED <<env, analyses, briefsTable, runVars, fnIn, fnOut, world,
                   verified, logout, nav, dash, reads>>

NextLogin ==
    \/ LoginJson
    \/ LoginVerifyPassword
    \/ LoginCreateSession

SpecLogin == InitLogin /\ [][NextLogin]_vars

(***************************************************************************)
(* The site around the creation flow: the session cookie and the calls of  *)
(* the session library, the logout route, the middleware, the dashboard    *)
(* page and the routes that return stored data.                            *)
(***************************************************************************)
MaxSessions == 2

\* createSession as the login route calls it after an accepted password
SignIn ==
    /\ sessions < MaxSessions
    /\ sessions' = sessions + 1
    /\ cookies' = createSession(cookies)
    /\ UNCHANGED <<env, analyses, briefsTable, runVars, fnIn, fnOut, world, login,
                   verified, logout, nav, dash, reads>>

\* the client: the token passes its expiry, the cookies are cleared, or the
\* client sends a 'session' cookie of its own making
ClientCookie ==
    /\ \/ cookies = Cookie(TRUE, "jwt") /\ cookies' = Cookie(TRUE, "expired jwt")
       \/ cookies.present /\ cookies' = NoCookie
       \/ \E v \in {"", "forged"} : cookies' = Cookie(TRUE, v)
    /\ UNCHANGED <<env, analyses, briefsTable, runVars, fnIn, fnOut, world, login,
                   sessions, verified, logout, nav, dash, reads>>

\* a call of verifySession on the jar
VerifySessionCall ==
    /\ verified' = [called |-> TRUE, jar |-> cookies,
                    result |-> verifySession(cookies).result,
                    jwtVerifyCalls |-> verifySession(cookies).jwtVerifyCalls]
    /\ UNCHANGED <<env, analyses, briefsTable, runVars, fnIn, fnOut, world, login,
                   sessions, cookies, logout, nav, dash, reads>>

\* a request to POST /api/auth/logout
LogoutRequest ==
    /\ logout.pc \in {"none", "done"}
    /\ logout' = [NoLogout EXCEPT !.pc = "destroySession"]
    /\ UNCHANGED <<env, analyses, briefsTable, runVars, fnIn, fnOut, world, login,
                   sessions, cookies, verified, nav, dash, reads>>

\* await destroySession() resolves, and the handler answers; or it rejects,
\* and with no catch in the handler the handler's promise rejects
LogoutDestroySession ==
    /\ logout.pc = "destroySession"
    /\ \/ /\ cookies' = destroySession(cookies)
          /\ logout' = [logout EXCEPT !.pc = "done",
                                      !.response = LoginResponse(200, "", TRUE)]
       \/ /\ logout' = [logout EXCEPT !.pc = "done", !.rejected = TRUE]
          /\ UNCHANGED cookies
    /\ UNCHANGED <<env, analyses, briefsTable, runVars, fnIn, fnOut, world, login,
                   sessions, verified, nav, dash, reads>>

\* pathnames, as sequences of pieces of the string
Paths == {
    << "/" >>,
    << "/", "api", "/", "auth", "/", "login" >>,
    << "/", "api", "/", "auth", "/", "login", "/" >>,
    << "/", "api", "/", "auth", "/", "logout" >>,
    << "/", "dashboard" >>,
    << "/", "analysis", "/", "7" >>,
    << "/", "api", "/", "analyses", "/", "list" >>,
    << "/", "_next", "/", "static" >>,
    << "/", "api", "/", "_next" >>,
    << "/", "favicon", ".", "ico" >> }

publicRoutes == { << "/" >>, << "/", "api", "/", "auth", "/", "login" >> }

\* pathname.startsWith(prefix)
StartsWith(pathname, prefix) ==
    /\ Len(pathname) >= Len(prefix)
    /\ SubSeq(pathname, 1, Len(prefix)) = prefix

\* pathname.includes(piece), for a piece of one character
Includes(pathname, piece) == \E i \in 1..Len(pathname) : pathname[i] = piece

\* the middleware that also verifies the token of the cookie
middleware_verifiesToken(pathname, jar) ==
    IF pathname \in publicRoutes THEN "next"
    ELSE IF \/ StartsWith(pathname, << "/", "_next" >>)
            \/ StartsWith(pathname, << "/", "api", "/", "_next" >>)
            \/ Includes(pathname, ".")
         THEN "next"
    ELSE IF ~(jar.present /\ jwtVerify(jar.value)) THEN "redirect"
    ELSE "next"

\* the middleware: NextResponse.next() or a redirect to '/'
middleware(pathname, jar) ==
    IF pathname \in publicRoutes THEN "next"
    ELSE IF \/ StartsWith(pathname, << "/", "_next" >>)
            \/ StartsWith(pathname, << "/", "api", "/", "_next" >>)
            \/ Includes(pathname, ".")
         THEN "next"
    ELSE IF ~jar.present THEN "redirect"
    ELSE "next"

\* a request passes the middleware
Navigate ==
    /\ \E pathname \in Paths :
          nav' = [path |-> pathname, jar |-> cookies,
                  decision |-> middleware(pathname, cookies)]
    /\ UNCHANGED <<env, analyses, briefsTable, runVars, fnIn, fnOut, world, login,
                   sessions, cookies, verified, logout, dash, reads>>

InitSite ==
    /\ env = Env(TRUE, NoHash)
    /\ analyses = <<>>
    /\ briefsTable = <<>>
    /\ InitRun({})
    /\ fnIn = <<>>
    /\ fnOut = <<>>
    /\ world = [bodies |-> {}, replies |-> {}]
    /\ login = NoLogin
    /\ sessions = 0
    /\ NoSite

NextSite ==
    \/ SignIn
    \/ ClientCookie
    \/ VerifySessionCall
    \/ LogoutRequest
    \/ LogoutDestroySession
    \/ Navigate

SpecSite == InitSite /\ [][NextSite]_vars

(***************************************************************************)
(* The routes that return stored data, and the dashboard page that calls   *)
(* the list route.                                                         *)
(***************************************************************************)
\* rows of the analyses table, oldest first, and of the briefs table
StoredAnalysis(name, count) ==
    [customer_name |-> name, brief_count |-> count, status |-> "completed"]

StoredLists == {
    << >>,
    << StoredAnalysis("Acme", 5) >>,
    << StoredAnalysis("Acme", 5), StoredAnalysis("Globex", 3) >> }

StoredBrief(id, title, score) ==
    [analysis_id |-> id, title |-> title, effort_impact_score |-> score]

StoredBriefs == {
    << >>,
    << StoredBrief(1, "first", 40), StoredBrief(1, "second", 90),
       StoredBrief(2, "third", 10) >> }

Ids == 1..2

DefaultLimit == 50

RECURSIVE Reverse(_)
Reverse(list) ==
    IF list = << >> THEN << >>
    ELSE Append(Reverse(Tail(list)), Head(list))

\* getAnalyses(): ORDER BY created_at DESC LIMIT 50 OFFSET 0
getAnalyses(table) ==
    LET newestFirst == Reverse(table) IN
    SubSeq(newestFirst, 1, IF Len(newestFirst) < DefaultLimit
                           THEN Len(newestFirst) ELSE DefaultLimit)

\* SELECT ... FROM analyses WHERE id = ${analysisId}
AnalysisById(table, id) == IF id \in 1..Len(table) THEN << table[id] >> ELSE << >>

RECURSIVE InsertByScore(_, _)
InsertByScore(row, sorted) ==
    IF sorted = << >> THEN << row >>
    ELSE IF row.effort_impact_score > Head(sorted).effort_impact_score
         THEN << row >> \o sorted
         ELSE << Head(sorted) >> \o InsertByScore(row, Tail(sorted))

RECURSIVE BriefsOf(_, _)
\* SELECT ... FROM briefs WHERE analysis_id = ${analysisId}
\* ORDER BY effort_impact_score DESC, created_at ASC
BriefsOf(table, id) ==
    IF table = << >> THEN << >>
    ELSE LET rest == BriefsOf(SubSeq(table, 1, Len(table) - 1), id)
             last == table[Len(table)]
         IN IF last.analysis_id = id THEN InsertByScore(last, rest) ELSE rest

\* the pathname of a route that returns data
PathOf(route) ==
    IF route = "list" THEN << "/", "api", "/", "analyses", "/", "list" >>
    ELSE IF route = "analysis" THEN << "/", "api", "/", "analyses", "/", "7" >>
    ELSE << "/", "api", "/", "analyses", "/", "7", "/", "briefs" >>

ReadRoutes == {"list", "analysis", "briefs"}

FailureOf(route) ==
    IF route = "list" THEN "Failed to fetch analyses"
    ELSE IF route = "analysis" THEN "Failed to fetch analysis"
    ELSE "Failed to fetch briefs"

ErrorAnswer(status, message) == Answer(status, JsonObject([error |-> message]))

ReadReturn(answer) == [reads EXCEPT !.pc = "done", !.answer = answer]

\* a request to a route that returns data passes the middleware, which
\* redirects it or lets it through to the handler; the list route starts at
\* its call of getAnalyses, the other two at their call of verifySession
ReadRequest ==
    /\ reads.pc \in {"none", "done"}
    /\ \E route \in ReadRoutes, id \in Ids :
          LET request == [NoRead EXCEPT !.route = route, !.id = id, !.jar = cookies] IN
          IF middleware(PathOf(route), cookies) = "redirect"
          THEN reads' = [request EXCEPT !.pc = "done",
                                        !.answer = Answer(307, NoBodyYet)]
          ELSE reads' = [request EXCEPT
                            !.pc = IF route = "list" THEN "getAnalyses"
                                   ELSE "verifySession"]
    /\ UNCHANGED <<env, analyses, briefsTable, runVars, fnIn, fnOut, world, login,
                   sessions, cookies, verified, logout, nav, dash>>

\* await verifySession() returns, and the handler answers 401 or goes on
\* to connect
ReadVerifySession ==
    /\ reads.pc = "verifySession"
    /\ LET valid == verifySession(reads.jar).result
           checked == [reads EXCEPT !.isValid = valid,
                                    !.verifySessionCalls = @ + 1]
       IN reads' = IF ~valid
                   THEN [checked EXCEPT !.pc = "done",
                                        !.answer = ErrorAnswer(401, "Unauthorized")]
                   ELSE [checked EXCEPT !.pc = "connect"]
    /\ UNCHANGED <<env, analyses, briefsTable, runVars, fnIn, fnOut, world, login,
                   sessions, cookies, verified, logout, nav, dash>>

\* await client.connect() returns or throws
ReadConnect ==
    /\ reads.pc = "connect"
    /\ \/ reads' = [reads EXCEPT !.pc = "query"]
       \/ reads' = ReadReturn(ErrorAnswer(500, FailureOf(reads.route)))
    /\ UNCHANGED <<env, analyses, briefsTable, runVars, fnIn, fnOut, world, login,
                   sessions, cookies, verified, logout, nav, dash>>

\* the SELECT of an [id] handler returns or throws, the client is ended and
\* the handler answers
ReadQuery ==
    /\ reads.pc = "query"
    /\ \/ LET asked == [reads EXCEPT !.queries = @ + 1]
              rows == IF reads.route = "analysis"
                      THEN AnalysisById(analyses, reads.id)
                      ELSE BriefsOf(briefsTable, reads.id)
          IN reads' =
                IF reads.route = "analysis"
                THEN IF rows = << >>
                     THEN [asked EXCEPT !.pc = "done",
                              !.answer = ErrorAnswer(404, "Analysis not found")]
                     ELSE [asked EXCEPT !.pc = "done",
                              !.answer = Answer(200, JsonObject([analysis |-> rows[1]]))]
                ELSE [asked EXCEPT !.pc = "done",
                         !.answer = Answer(200, JsonObject([briefs |-> rows]))]
       \/ reads' = [ReadReturn(ErrorAnswer(500, FailureOf(reads.route)))
                       EXCEPT !.queries = @ + 1]
    /\ UNCHANGED <<env, analyses, briefsTable, runVars, fnIn, fnOut, world, login,
                   sessions, cookies, verified, logout, nav, dash>>

\* the answer of the list route when getAnalyses returns
ListAnswer(table) == Answer(200, JsonArray(getAnalyses(table)))

\* await getAnalyses() returns or throws, and the list route answers
ReadList ==
    /\ reads.pc = "getAnalyses"
    /\ \/ reads' = [ReadReturn(ListAnswer(analyses)) EXCEPT !.queries = @ + 1]
       \/ reads' = [ReadReturn(ErrorAnswer(500, FailureOf("list")))
                       EXCEPT !.queries = @ + 1]
    /\ UNCHANGED <<env, analyses, briefsTable, runVars, fnIn, fnOut, world, login,
                   sessions, cookies, verified, logout, nav, dash>>

\* data.analyses: the value of the property, or << >> for undefined
PropertyAnalyses(body) ==
    IF body.kind = "object" /\ "analyses" \in DOMAIN body.fields
    THEN body.fields.analyses
    ELSE << >>

\* data.analyses || []
AnalysesOfBody(body) == PropertyAnalyses(body)

\* the dashboard mounts: useEffect calls fetchAnalyses, which fetches
DashMount ==
    /\ dash.pc = "none"
    /\ dash' = [NoDash EXCEPT !.pc = "fetch"]
    /\ UNCHANGED <<env, analyses, briefsTable, runVars, fnIn, fnOut, world, login,
                   sessions, cookies, verified, logout, nav, reads>>

\* the rest of fetchAnalyses: fetch('/api/analyses/list') throws, or returns
\* the page the middleware redirects to, or the answer of the list route;
\* then setAnalyses on an ok JSON answer, and setLoading(false) in any case
DashFetch ==
    /\ dash.pc = "fetch"
    /\ \/ \* fetch throws
          dash' = [dash EXCEPT !.pc = "done", !.loading = FALSE,
                               !.fetched = "threw"]
       \/ \* redirected to '/', whose body is not JSON: response.json() throws
          /\ middleware(PathOf("list"), cookies) = "redirect"
          /\ dash' = [dash EXCEPT !.pc = "done", !.loading = FALSE,
                                  !.fetched = "redirected"]
       \/ /\ middleware(PathOf("list"), cookies) = "next"
          /\ \E answer \in {ListAnswer(analyses),
                            ErrorAnswer(500, FailureOf("list"))} :
                dash' = [dash EXCEPT
                            !.pc = "done", !.loading = FALSE,
                            !.fetched = "answered", !.answer = answer,
                            !.analyses = IF answer.status = 200
                                         THEN AnalysesOfBody(answer.body)
                                         ELSE @]
    /\ UNCHANGED <<env, analyses, briefsTable, runVars, fnIn, fnOut, world, login,
                   sessions, cookies, verified, logout, nav, reads>>

\* what the dashboard renders, with the search box empty
Rendered(page) ==
    IF page.loading THEN [view |-> "loading", items |-> << >>]
    ELSE IF Len(page.analyses) = 0
         THEN [view |-> "No analyses found", items |-> << >>]
    ELSE [view |-> "list",
          items |-> [i \in 1..Len(page.analyses) |->
                        [customer_name |-> page.analyses[i].customer_name,
                         brief_count |-> page.analyses[i].brief_count]]]

InitReads ==
    /\ env = Env(TRUE, NoHash)
    /\ analyses \in StoredLists
    /\ briefsTable \in StoredBriefs
    /\ InitRun({})
    /\ fnIn = <<>>
    /\ fnOut = <<>>
    /\ world = [bodies |-> {}, replies |-> {}]
    /\ login = NoLogin
    /\ sessions = 0
    /\ NoSite

NextReads ==
    \/ SignIn
    \/ ClientCookie
    \/ ReadRequest
    \/ ReadVerifySession
    \/ ReadConnect
    \/ ReadQuery
    \/ ReadList
    \/ DashMount
    \/ DashFetch

SpecReads == InitReads /\ [][NextReads]_vars

(***************************************************************************)
(* Properties.                                                             *)
(***************************************************************************)
\* C3: for every effort and impact in 1..10 the score is (2*impact - effort)*10,
\* which is 190 for (1, 10) and -80 for (10, 1), so it lies in -80..190
ScoreIsTenTimesWeighted ==
    fnOut # <<>> =>
        /\ fnOut[1] = (2 * fnIn.impact - fnIn.effort) * 10
        /\ fnOut[1] \in -80..190
        /\ (fnIn.effort = 1 /\ fnIn.impact = 10 => fnOut[1] = 190)
        /\ (fnIn.effort = 10 /\ fnIn.impact = 1 => fnOut[1] = -80)

ScoreExtremesComputed ==
    /\ fnOut = <<-80>>
    /\ fnIn.effort = 10
    /\ fnIn.impact = 1

\* position in pool of the candidate with the category and title of b
PosIn(pool, b) ==
    CHOOSE k \in 1..Len(pool) :
        pool[k].title = b.title /\ pool[k].category = b.category

\* out is the first Len(out) of the pool ranked by descending score, equal
\* scores in pool order
IsTopOf(out, pool) ==
    /\ \A i \in 1..Len(out) : \E k \in 1..Len(pool) : pool[k] = out[i]
    /\ \A i, j \in 1..Len(out) :
          i < j => /\ out[i].effort_impact_score >= out[j].effort_impact_score
                   /\ PosIn(pool, out[i]) # PosIn(pool, out[j])
                   /\ (out[i].effort_impact_score = out[j].effort_impact_score
                          => PosIn(pool, out[i]) < PosIn(pool, out[j]))
    /\ \A k \in 1..Len(pool) :
          (\A i \in 1..Len(out) : out[i] # pool[k]) =>
              \A i \in 1..Len(out) :
                 \/ out[i].effort_impact_score > pool[k].effort_impact_score
                 \/ /\ out[i].effort_impact_score = pool[k].effort_impact_score
                    /\ PosIn(pool, out[i]) < k

\* C2: the selection returns min(N, pool size) candidates, in descending score,
\* equal scores in encounter order, and they are the highest-scoring of the pool
\* (negative scores included when the pool has nothing better)
SelectionIsStableTopN ==
    fnOut # <<>> =>
        /\ Len(fnOut[1]) = Min(fnIn.n, Len(fnIn.pool))
        /\ IsTopOf(fnOut[1], fnIn.pool)

SelectionKeepsTieAndNegative ==
    /\ fnOut # <<>>
    /\ Len(fnIn.pool) = 4
    /\ fnIn.n = 3
    /\ fnOut[1][1].effort_impact_score = 90
    /\ fnOut[1][2].effort_impact_score = 90
    /\ fnOut[1][1].title = "2"
    /\ fnOut[1][2].title = "4"
    /\ fnOut[1][3].effort_impact_score < 0

Runs == DOMAIN pc

\* the briefs persisted for analysis id, in insertion order, as candidates
PersistedOf(id) ==
    LET rows == SelectSeq(briefsTable, LAMBDA row : row.analysis_id = id)
    IN  [k \in 1..Len(rows) |->
            [category |-> rows[k].category, title |-> rows[k].title,
             effort_score |-> rows[k].effort_score,
             impact_score |-> rows[k].impact_score,
             effort_impact_score |-> rows[k].effort_impact_score]]

ScoresOf(bs) == [k \in 1..Len(bs) |-> bs[k].effort_impact_score]

\* C1: at any time the briefs persisted for an analysis number at most its
\* requested brief count (none at all for a count below 1); once it is
\* 'completed' they are the highest-scoring
\* candidates gathered, ties in category order and then in reply order; scores
\* {90,50} and {80,-10} with count 3 persist 90, 80, 50
PersistedIsTopWithinCount ==
    \A r \in Runs :
        analysisId[r] # 0 =>
            LET rows == PersistedOf(analysisId[r])
                row  == analyses[analysisId[r]]
            IN  /\ row.brief_count # <<>> => Len(rows) <= Max(row.brief_count[1], 0)
                /\ row.status = "completed" =>
                      /\ IsTopOf(rows, gathered[r])
                      /\ row.brief_count # <<>> =>
                            Len(rows) = Min(Max(row.brief_count[1], 0), Len(gathered[r]))
                      /\ (ScoresOf(gathered[r]) = <<90, 50, 80, -10>>
                             /\ row.brief_count = <<3>>
                                => ScoresOf(rows) = <<90, 80, 50>>)

\* C4: a new analysis row has status 'processing'; a row's status changes only
\* from 'processing' to 'completed', and only in a step of the run that owns it
\* taken after the competitive analysis succeeded, every category was processed
\* and every selected brief was inserted
StatusOnlyProcessingToCompleted ==
    [][ /\ \A id \in (Len(analyses) + 1)..Len(analyses') :
              analyses'[id].status = "processing"
        /\ \A id \in 1..Len(analyses) :
              analyses'[id].status # analyses[id].status =>
                  /\ analyses[id].status = "processing"
                  /\ analyses'[id].status = "completed"
                  /\ \E r \in Runs :
                        /\ analysisId[r] = id
                        /\ pc[r] = "updateStatus"
                        /\ analysisText[r] # ""
                        /\ Len(calls[r]) = 1 + Len(categoriesToUse[r])
                        /\ catIdx[r] = Len(categoriesToUse[r])
                        /\ insIdx[r] = Len(sortedBriefs[r])
                        /\ Len(PersistedOf(id)) = Len(sortedBriefs[r])
                        /\ bclient[r] = "ended"
      ]_vars

CompletedAfterInserts ==
    \E r \in Runs :
        /\ analysisId[r] # 0
        /\ analyses[analysisId[r]].status = "completed"
        /\ Len(PersistedOf(analysisId[r])) = 3
        /\ pc[r] = "done"

\* the reply makes generateCategoryBriefs throw inside its try: the call failed,
\* or the matched substring is not JSON
CategoryFails(reply) ==
    \/ ~reply.ok
    \/ /\ reply.hasText
       /\ RegexMatch(reply.text).hit
       /\ ~JSONparse(RegexMatch(reply.text).str).ok

\* C5: a category whose call fails or whose bracketed substring is not JSON adds
\* no candidate and leaves the others in the pool, the run goes on with the next
\* category (or with the selection) and answers no error for it; a run in which
\* every category yields nothing can still complete, with no brief persisted
CategoryFailureIsLocal ==
    /\ [][ \A r \in Runs :
              (pc[r] = "category" /\ catIdx'[r] = catIdx[r] + 1
                  /\ CategoryFails(lastReply'[r])) =>
                  /\ gathered'[r] = gathered[r]
                  /\ response'[r] = NoResponse
                  /\ IF catIdx'[r] < Len(categoriesToUse[r])
                     THEN /\ pc'[r] = "category"
                          /\ briefs'[r] = briefs[r]
                          /\ Len(calls'[r]) = Len(calls[r]) + 1
                          /\ calls'[r][Len(calls'[r])].category =
                                 categoriesToUse[r][catIdx'[r] + 1]
                     ELSE /\ pc'[r] = "briefConnect"
                          /\ sortedBriefs'[r] = SelectBriefs(gathered[r], formData[r])
         ]_vars
    /\ [](\A r \in Runs :
             (response[r].status = 200 /\ gathered[r] = <<>>) =>
                 /\ analyses[analysisId[r]].status = "completed"
                 /\ PersistedOf(analysisId[r]) = <<>>
                 /\ response[r].briefCount = 0)

FailedCategoryOthersPersisted ==
    \E r \in Runs :
        /\ response[r].status = 200
        /\ lastReply[r] = TextReply(TextBad)
        /\ categoriesToUse[r] = <<"Technology", "Platform Presence">>
        /\ ScoresOf(PersistedOf(analysisId[r])) = <<90, 50>>
        /\ analyses[analysisId[r]].status = "completed"

GenerationFailedResponse == Caught("Anthropic API error")

\* C6: once the competitive-analysis call has failed, the run is over: it has
\* made that call and no per-category call, persisted no brief, left the status
\* 'processing' and answered one error message with status 500
AnalysisFailureIsFatal ==
    \A r \in Runs :
        (Len(calls[r]) >= 1 /\ pc[r] # "competitive" /\ catIdx[r] = 0
            /\ ~lastReply[r].ok) =>
            /\ pc[r] = "done"
            /\ calls[r] = << AnalysisCall(formData[r]) >>
            /\ gathered[r] = <<>>
            /\ PersistedOf(analysisId[r]) = <<>>
            /\ analyses[analysisId[r]].status = "processing"
            /\ response[r] = GenerationFailedResponse
            /\ response[r].status = 500

AnalysisCallFailed ==
    \E r \in Runs : response[r] = GenerationFailedResponse /\ pc[r] = "done"

\* C7: when verifySession returned false the handler has answered 401
\* 'Unauthorized' and done nothing else: no database client, no analysis row, no
\* generation call, no brief; the step that answers leaves the tables as they are
UnauthorizedDoesNothing ==
    /\ [][ \A r \in Runs :
              (pc[r] = "start" /\ pc'[r] # "start" /\ ~isValid'[r]) =>
                  /\ analyses' = analyses
                  /\ briefsTable' = briefsTable
         ]_vars
    /\ [](\A r \in Runs :
             (pc[r] # "start" /\ ~isValid[r]) =>
                 /\ pc[r] = "done"
                 /\ response[r] = ErrorResponse(401, "Unauthorized")
                 /\ client[r] = "none"
                 /\ bclient[r] = "none"
                 /\ analysisId[r] = 0
                 /\ calls[r] = <<>>
                 /\ formData[r] = NoBody)

UnauthorizedAnswered ==
    \E r \in Runs : pc[r] = "done" /\ response[r].status = 401

\* C8: a request without a customer name (missing or empty) is answered 400
\* 'Customer name is required' as soon as it is read, and only such a request
\* is; its run has opened no database client, inserted no analysis and made no
\* generation call
NoCustomerNameIs400 ==
    /\ [][ \A r \in Runs :
              (pc[r] = "parse" /\ response'[r].status = 400) =>
                  /\ analyses' = analyses
                  /\ briefsTable' = briefsTable
                  /\ pc'[r] = "done"
         ]_vars
    /\ [](\A r \in Runs :
          /\ (pc[r] \notin {"start", "parse"}
                 /\ ("customerName" \notin formData[r].keys
                        \/ formData[r].customerName = "")
                 /\ formData[r] # NoBody) =>
                /\ pc[r] = "done"
                /\ response[r] = ErrorResponse(400, "Customer name is required")
          /\ response[r].status = 400 =>
                /\ response[r].error = "Customer name is required"
                /\ ("customerName" \notin formData[r].keys
                       \/ formData[r].customerName = "")
                /\ client[r] = "none"
                /\ bclient[r] = "none"
                /\ analysisId[r] = 0
                /\ calls[r] = <<>>
                /\ categoriesToUse[r] = <<>>)

EmptyCustomerNameAnswered ==
    \E r \in Runs :
        /\ response[r].status = 400
        /\ "customerName" \in formData[r].keys
        /\ formData[r].customerName = ""

ConfigurationErrorResponse ==
    Caught("ANTHROPIC_API_KEY environment variable is not set")

\* C9 as claimed: when the API key is absent, the run that raises the
\* configuration error has issued no generation request and performed no storage
\* operation, and answers with the error's message
ConfigErrorBeforeAnyWork ==
    \A r \in Runs :
        (~env.ANTHROPIC_API_KEY /\ response[r].status = 500
            /\ response[r].error = ConfigurationErrorResponse.error) =>
            /\ calls[r] = <<>>
            /\ client[r] = "none"
            /\ analysisId[r] = 0
            /\ analyses = <<>>

\* C9 as amended: without the API key no generation request is ever issued and
\* no brief is persisted; the configuration error is raised after the database
\* was connected and the analysis row inserted, the row stays 'processing', the
\* client is ended and the answer is 500 with the error's message prefixed
ConfigErrorAfterAnalysisInsert ==
    \A r \in Runs :
        /\ ~env.ANTHROPIC_API_KEY =>
              /\ calls[r] = <<>>
              /\ PersistedOf(analysisId[r]) = <<>> \/ analysisId[r] = 0
              /\ analysisId[r] # 0 =>
                    /\ pc[r] = "done"
                    /\ response[r] = ConfigurationErrorResponse
        /\ response[r] = ConfigurationErrorResponse =>
              /\ ~env.ANTHROPIC_API_KEY
              /\ calls[r] = <<>>
              /\ analysisId[r] # 0
              /\ analyses[analysisId[r]].status = "processing"
              /\ client[r] = "ended"
              /\ bclient[r] = "none"
              /\ response[r].status = 500

ConfigErrorRaised ==
    \E r \in Runs :
        /\ ~env.ANTHROPIC_API_KEY
        /\ response[r] = ConfigurationErrorResponse
        /\ Len(analyses) = 1

\* C10: no analysis is stored, and no selection made, with a brief count outside
\* MinBriefCount..MaxBriefCount; a request without one is given DefaultBriefCount
BriefCountInRange ==
    /\ \A id \in 1..Len(analyses) :
          /\ analyses[id].brief_count # <<>>
          /\ analyses[id].brief_count[1] \in MinBriefCount..MaxBriefCount
    /\ \A r \in Runs :
          pc[r] \in {"briefConnect", "insertBrief", "briefEnd", "updateStatus",
                     "end"} =>
              /\ "briefCount" \in formData[r].keys
              /\ formData[r].briefCount \in MinBriefCount..MaxBriefCount
    /\ \A r \in Runs :
          (analysisId[r] # 0 /\ "briefCount" \notin formData[r].keys) =>
              analyses[analysisId[r]].brief_count = <<DefaultBriefCount>>

\* C11: a run that reaches generation calls the gateway once for the competitive
\* analysis and then once per category, in the order of categoriesToUse; a call
\* is issued only when the previous one has ended, one at a time, and none is
\* repeated, so a run makes at most 1 + Len(categoriesToUse) calls
GatewayCallsInOrder ==
    /\ [](\A r \in Runs :
             LET n == Len(calls[r])
                 cats == categoriesToUse[r]
             IN  /\ n <= 1 + Len(cats)
                 /\ n >= 1 => calls[r][1].kind = "analysis"
                 /\ \A k \in 2..n : /\ calls[r][k].kind = "category"
                                    /\ calls[r][k].category = cats[k - 1]
                 /\ pc[r] = "competitive" => n = 1 /\ catIdx[r] = 0
                 /\ pc[r] = "category" => n = catIdx[r] + 2
                 /\ pc[r] \in {"briefConnect", "insertBrief", "briefEnd",
                               "updateStatus", "end"} =>
                        n = 1 + Len(cats) /\ catIdx[r] = Len(cats))
    /\ [][ \A r \in Runs :
              \/ calls'[r] = calls[r]
              \/ /\ Len(calls'[r]) = Len(calls[r]) + 1
                 /\ SubSeq(calls'[r], 1, Len(calls[r])) = calls[r]
                 /\ pc[r] \in {"insertAnalysis", "competitive", "category"}
                 /\ pc[r] = "category" => catIdx'[r] = catIdx[r] + 1
         ]_vars

FailedCallNotRepeated ==
    \E r \in Runs :
        /\ response[r].status = 200
        /\ categoriesToUse[r] = <<"Platform Presence", "Technology">>
        /\ Len(calls[r]) = 3
        /\ calls[r][2].category = "Platform Presence"
        /\ gathered[r] = <<>>
        /\ lastReply[r] = Failure

\* the value a placeholder stands for, as a string
ValueOf(token, fd) ==
    CASE token = "[CUSTOMER_NAME]" -> <<fd.customerName>>
      [] token = "[COMPETITORS]" -> Join(fd.visibilityData.competitors)
      [] token = "[VISIBILITY_SCORE]" -> <<ToString(fd.visibilityData.visibilityScore)>>
      [] token = "[TOPICS]" -> Join(fd.visibilityData.topics)

\* the template with every placeholder replaced by exactly its value
VerbatimSubstitution(template, fd) ==
    Flatten([k \in 1..Len(template) |->
        IF template[k] \in Placeholders THEN ValueOf(template[k], fd)
        ELSE <<template[k]>>])

\* C12: for every template and context, the prompt is the template with each
\* placeholder replaced by exactly its value (lists joined with ", ", an empty
\* list giving the empty string), the values inserted verbatim, every other
\* token unchanged, followed by the technical context
PromptIsVerbatimSubstitution ==
    fnOut # <<>> =>
        fnOut[1] = VerbatimSubstitution(PromptTemplate(fnIn), fnIn)
                       \o <<"\n\n">> \o TechnicalContext(fnIn)

\* C13: a successful gateway response without textual content is no error: after
\* the competitive-analysis call the analysis text is "Analysis failed", no
\* answer is given and the first category is called with that text in its
\* prompt; after a per-category call the text is "[]", the category adds no
\* candidate and the run goes on with the next category or the selection
NoTextIsNotAnError ==
    [][ \A r \in Runs :
           /\ (pc[r] = "competitive" /\ pc'[r] # "competitive"
                   /\ lastReply'[r] = NoText) =>
                  /\ analysisText'[r] = "Analysis failed"
                  /\ pc'[r] = "category"
                  /\ response'[r] = NoResponse
                  /\ calls'[r] = Append(calls[r],
                         CategoryCall(formData[r], categoriesToUse[r][1],
                                      "Analysis failed"))
           /\ (pc[r] = "category" /\ catIdx'[r] = catIdx[r] + 1
                   /\ lastReply'[r] = NoText) =>
                  /\ RegexMatch(<<Ch("["), Ch("]")>>).hit
                  /\ JSONparse(<<Ch("["), Ch("]")>>) = [ok |-> TRUE, value |-> <<>>]
                  /\ gathered'[r] = gathered[r]
                  /\ response'[r] = NoResponse
                  /\ pc'[r] = IF catIdx'[r] < Len(categoriesToUse[r])
                              THEN "category" ELSE "briefConnect"
      ]_vars

\* a run completed although the analysis had no text and so had the last category
NoTextRunCompleted ==
    \E r \in Runs :
        /\ response[r].status = 200
        /\ analysisText[r] = "Analysis failed"
        /\ lastReply[r] = NoText
        /\ Len(PersistedOf(analysisId[r])) > 0

\* the text has a substring that starts with "[" and ends with "]"
HasBracketedSubstring(text) ==
    \E i, j \in 1..Len(text) : i < j /\ text[i] = Ch("[") /\ text[j] = Ch("]")

\* C14: for every reply text without a substring that starts with "[" and ends
\* with "]", the parser matches nothing, JSON.parse is not reached and throws
\* nothing, and the category gets an empty candidate sequence
UnbracketedTextGivesNoCandidates ==
    (fnOut # <<>> /\ ~HasBracketedSubstring(fnIn)) =>
        /\ ~fnOut[1].parse.matched
        /\ ~fnOut[1].parse.threw
        /\ fnOut[1].parse.value = <<>>
        /\ fnOut[1].count = 0

\* a text with an opening bracket that is never closed has been parsed
UnclosedBracketParsed ==
    /\ fnOut # <<>>
    /\ fnIn = << Ch("p"), Ch("]"), Ch("["), Obj("o", 1, 5) >>

\* C15: every persisted brief carries one of the nine names of BRIEF_CATEGORIES,
\* whatever categoriesSelected the request supplied
PersistedCategoryIsFixedName ==
    \A k \in 1..Len(briefsTable) :
        \E c \in 1..Len(BRIEF_CATEGORIES) : briefsTable[k].category = BRIEF_CATEGORIES[c]

\* C16 as stated: the custom_prompt persisted with an analysis equals the prompt
\* sent to the gateway for the competitive-analysis call
StoredPromptIsSentPrompt ==
    \A r \in Runs :
        Len(calls[r]) >= 1 =>
            analyses[analysisId[r]].custom_prompt = calls[r][1].prompt

\* C16: the custom_prompt persisted with an analysis is the template the request
\* resolved to, the custom prompt or else the default prompt, with its
\* placeholders still in it; the prompt sent for the competitive analysis is
\* that template after the four replaces, followed by the technical context
StoredPromptIsTemplate ==
    \A r \in Runs :
        analysisId[r] # 0 =>
            LET stored == analyses[analysisId[r]].custom_prompt IN
            /\ stored = IF formData[r].customPrompt # <<>>
                        THEN formData[r].customPrompt ELSE getDefaultPrompt
            /\ Len(calls[r]) >= 1 =>
                   calls[r][1].prompt =
                       SubstituteVariables(stored, formData[r]) \o <<"\n\n">>
                           \o TechnicalContext(formData[r])

CustomPromptStoredAndSent ==
    \E r \in Runs :
        /\ Len(calls[r]) >= 1
        /\ formData[r].customPrompt # <<>>
        /\ formData[r].technicalAnalysis = <<"slow pages">>
        /\ analyses[analysisId[r]].custom_prompt = formData[r].customPrompt
        /\ response[r].status = 200

\* C17: a success answer carries the id of the analysis the run created, a
\* briefCount equal to the number of brief rows persisted for that analysis and
\* the summary message with that number, and nothing else: no error text and no
\* warning, also when the count is below the requested one
SuccessReportsPersistedCount ==
    \A r \in Runs :
        response[r].status = 200 =>
            LET n == Len(PersistedOf(analysisId[r])) IN
            /\ analysisId[r] \in 1..Len(analyses)
            /\ response[r] =
                   [status |-> 200, success |-> TRUE, analysisId |-> analysisId[r],
                    briefCount |-> n,
                    message |-> "Successfully created analysis with " \o ToString(n)
                                    \o " briefs",
                    error |-> ""]

\* a success that reports fewer briefs than requested after a failed category
FewerBriefsThanRequested ==
    \E r \in Runs :
        /\ response[r].status = 200
        /\ formData[r].briefCount = 3
        /\ "briefCount" \in formData[r].keys
        /\ response[r].briefCount = 2
        /\ lastReply[r] = Failure
        /\ response[r].message = "Successfully created analysis with 2 briefs"

StorageErrors == { Caught("insert failed"), Caught("update failed") }

\* C18: when the analysis INSERT, a brief INSERT or the status UPDATE fails, the
\* run ends with an error answer of status 500; the failing step and everything
\* after it leave both tables as they are, so the analysis, if it was inserted,
\* stays 'processing' and the briefs inserted before the failure stay stored
StorageFailureIsFatal ==
    /\ [](\A r \in Runs :
             response[r] \in StorageErrors =>
                 /\ pc[r] = "done"
                 /\ response[r].status = 500 /\ ~response[r].success
                 /\ analysisId[r] # 0 =>
                        /\ analyses[analysisId[r]].status = "processing"
                        /\ PersistedOf(analysisId[r]) =
                               SubSeq(sortedBriefs[r], 1, insIdx[r]))
    /\ [][ \A r \in Runs :
              (response'[r] \in StorageErrors) =>
                  /\ analyses' = analyses
                  /\ briefsTable' = briefsTable
         ]_vars

\* a brief INSERT failed after another brief of the run had been stored
BriefInsertFailedMidway ==
    \E r \in Runs :
        /\ response[r] = Caught("insert failed")
        /\ insIdx[r] = 1
        /\ Len(sortedBriefs[r]) = 2
        /\ Len(PersistedOf(analysisId[r])) = 1

\* C19: with two requests in flight, the analysis ids of the runs differ, the
\* candidates a run has gathered are those of its own replies, the rows stored
\* under a run's analysis id are the first insIdx briefs of the selection made
\* from that run's own candidates by its own brief count, in that order, and a
\* success answer reports the size of that selection
RunsKeepTheirOwnPool ==
    /\ [](\A r \in Runs :
             /\ \A q \in Runs \ {r} :
                    analysisId[r] # 0 => analysisId[q] # analysisId[r]
             /\ Len(gathered[r]) <= 2 * catIdx[r]
             /\ \A k \in 1..Len(gathered[r]) :
                    \E c \in 1..catIdx[r] :
                        gathered[r][k].category = categoriesToUse[r][c]
             /\ analysisId[r] # 0 =>
                    PersistedOf(analysisId[r]) =
                        IF insIdx[r] = 0 THEN <<>>
                        ELSE SubSeq(SelectBriefs(gathered[r], formData[r]),
                                    1, insIdx[r])
             /\ response[r].status = 200 =>
                    /\ insIdx[r] = Len(SelectBriefs(gathered[r], formData[r]))
                    /\ response[r].briefCount = insIdx[r]
                    /\ response[r].analysisId = analysisId[r])
    /\ [][ \A r \in Runs :
              (pc[r] = "category" /\ catIdx'[r] = catIdx[r] + 1) =>
                  /\ gathered'[r] = gathered[r]
                         \o CategoryBriefsOf(lastReply'[r],
                                             categoriesToUse[r][catIdx'[r]])
                  /\ briefs'[r] \in {briefs[r] \o CategoryBriefsOf(lastReply'[r],
                                                       categoriesToUse[r][catIdx'[r]]),
                                     SortBriefs(gathered'[r])}
                  /\ \A q \in Runs \ {r} :
                         gathered'[q] = gathered[q] /\ briefs'[q] = briefs[q]
         ]_vars

\* both runs succeeded, each on other candidates, their rows interleaved
BothRunsStoredTheirOwn ==
    /\ \A r \in Runs : response[r].status = 200
    /\ categoriesToUse[1] = <<"Technology", "Platform Presence">>
    /\ categoriesToUse[2] = <<"Platform Presence">>
    /\ analysisId[1] = 2 /\ analysisId[2] = 1
    /\ ScoresOf(PersistedOf(2)) = <<90, 80>>
    /\ ScoresOf(PersistedOf(1)) = <<90>>
    /\ briefsTable[1].analysis_id = 2 /\ briefsTable[2].analysis_id = 1

\* the password was accepted: it is 'admin', or verifyPassword said so
LoginAccepted == login.password.value = "admin" \/ login.isValid

\* the body was read and its password is missing, null or the empty string
PasswordAbsent ==
    login.password.kind \in {"missing", "null"}
        \/ (login.password.kind = "string" /\ login.password.value = "")

\* C20 as stated: the login answers 200 {success: true}, with one session
\* created, exactly when the password is 'admin' or the configured hash accepts
\* it; a missing, empty or null password is answered 400, any other rejected
\* one 401, both without a call of createSession
LoginSucceedsIffAccepted ==
    (login.pc = "done" /\ login.password.kind # "unread") =>
        /\ login.response = LoginResponse(200, "", TRUE) <=> LoginAccepted
        /\ LoginAccepted => sessions = 1 /\ login.createSessionCalls = 1
        /\ ~LoginAccepted =>
               /\ login.createSessionCalls = 0 /\ sessions = 0
               /\ login.response =
                      IF PasswordAbsent
                      THEN LoginResponse(400, "Password is required", FALSE)
                      ELSE LoginResponse(401, "Invalid password", FALSE)

\* C20: when request.json(), verifyPassword and createSession do not throw, the
\* login answers 200 {success: true} exactly when the password is 'admin' or a
\* usable configured hash accepts it, and then createSession was called once
\* and made one session; a missing, empty or null password is answered 400 and
\* any other rejected one 401, without a call of createSession; when one of
\* the three throws the answer is 500 'Internal server error', with no session
\* made and createSession called at most once
LoginSucceedsIffAcceptedUnlessThrown ==
    LET threw == login.response = LoginResponse(500, "Internal server error", FALSE)
    IN
    /\ login.createSessionCalls <= 1 /\ sessions <= login.createSessionCalls
    /\ login.isValid => HashUsable(env.SHARED_PASSWORD_HASH)
    /\ (login.pc = "done" /\ ~threw) =>
           /\ login.password.kind # "unread"
           /\ login.response = LoginResponse(200, "", TRUE) <=> LoginAccepted
           /\ LoginAccepted => sessions = 1 /\ login.createSessionCalls = 1
           /\ ~LoginAccepted =>
                  /\ login.createSessionCalls = 0 /\ sessions = 0
                  /\ login.response =
                         IF PasswordAbsent
                         THEN LoginResponse(400, "Password is required", FALSE)
                         ELSE LoginResponse(401, "Invalid password", FALSE)
    /\ (login.pc = "done" /\ threw) => sessions = 0

\* a login by the hash, and one refused for an empty password
HashLoginSucceeded ==
    /\ login.pc = "done"
    /\ login.password.value = "secret"
    /\ login.isValid
    /\ sessions = 1
    /\ login.response = LoginResponse(200, "", TRUE)

\* the brackets of a text, in order
BracketsOf(text) == SelectSeq(text, LAMBDA t : t \in {Ch("["), Ch("]")})

\* positions of the k-th bracket of a text
BracketAt(text, k) ==
    CHOOSE i \in 1..Len(text) :
        /\ text[i] \in {Ch("["), Ch("]")}
        /\ Len(BracketsOf(SubSeq(text, 1, i))) = k

\* C25: the JSON candidate is the substring from the first "[" of the text to
\* its last "]", and exactly that substring is parsed; so a text with two
\* bracketed pieces side by side, one of them a JSON array and the other a
\* fragment of the prose before or after it, fails to parse and gives the
\* category no candidate, not those of the array
GreedyCandidateIsParsed ==
    (fnOut # <<>> /\ HasBracketedSubstring(fnIn)) =>
        LET lo == CHOOSE i \in 1..Len(fnIn) :
                      fnIn[i] = Ch("[") /\ \A j \in 1..(i - 1) : fnIn[j] # Ch("[")
            hi == CHOOSE i \in 1..Len(fnIn) :
                      fnIn[i] = Ch("]") /\ \A j \in (i + 1)..Len(fnIn) : fnIn[j] # Ch("]")
            candidate == SubSeq(fnIn, lo, hi)
        IN  /\ fnOut[1].parse.matched
            /\ fnOut[1].parse.str = candidate
            /\ fnOut[1].parse.threw <=> ~JSONparse(candidate).ok
            /\ fnOut[1].parse.threw => fnOut[1].count = 0
            /\ ~fnOut[1].parse.threw =>
                   /\ fnOut[1].parse.value = JSONparse(candidate).value
                   /\ fnOut[1].count = Len(JSONparse(candidate).value)
            /\ (/\ BracketsOf(fnIn) = <<Ch("["), Ch("]"), Ch("["), Ch("]")>>
                /\ \/ JSONparse(SubSeq(fnIn, BracketAt(fnIn, 1), BracketAt(fnIn, 2))).ok
                   \/ JSONparse(SubSeq(fnIn, BracketAt(fnIn, 3), BracketAt(fnIn, 4))).ok)
                   => fnOut[1].parse.threw /\ fnOut[1].count = 0

\* an array with one candidate followed by a bracketed fragment has been parsed
ArrayBeforeFragmentParsed ==
    /\ fnOut # <<>>
    /\ fnIn = << Ch("["), Obj("o", 1, 5), Ch("]"), Ch("["), Ch("]") >>
    /\ fnOut[1].count = 0

\* the nine category names, in the order of the source
NineCategories ==
    << "Technology", "Platform Presence", "Content Structure", "Content Types",
       "Reviews and Testimonials", "PR Outreach and LLM Seeding",
       "Social Engagement and Community Strategy",
       "Multimodal and Visual Optimization",
       "Data Authority and Proprietary Statistics" >>

\* the categories a request asks for
ExpectedCategories(fd) ==
    IF fd.useMostImpactful \/ fd.categoriesSelected = <<>>
    THEN NineCategories ELSE fd.categoriesSelected

\* C27: the categories a run processes, and those stored with its analysis, are
\* the nine fixed ones in their order when useMostImpactful is true or
\* categoriesSelected is empty, and otherwise categoriesSelected as supplied:
\* the stored column is the JSON text of that list, the category calls of the
\* run follow it from its first element, and a run that gets through the loop
\* has called every one of them
ProcessedCategoriesAsRequested ==
    \A r \in Runs :
        /\ analysisId[r] # 0 =>
               LET expected == ExpectedCategories(formData[r]) IN
               /\ categoriesToUse[r] = expected
               /\ analyses[analysisId[r]].categories_selected =
                      <<"[">> \o [k \in 1..(2 * Len(expected) - 1) |->
                                    IF k % 2 = 1
                                    THEN "\"" \o expected[(k + 1) \div 2] \o "\""
                                    ELSE ","]
                            \o <<"]">>
               /\ \A k \in 2..Len(calls[r]) :
                      calls[r][k].category = expected[k - 1]
               /\ pc[r] \in {"briefConnect", "insertBrief", "briefEnd",
                             "updateStatus", "end"} \/ response[r].status = 200
                      => Len(calls[r]) = 1 + Len(expected)

\* a run for all nine categories although two were selected
MostImpactfulOverridesSelection ==
    \E r \in Runs :
        /\ response[r].status = 200
        /\ formData[r].useMostImpactful
        /\ formData[r].categoriesSelected = <<"Platform Presence", "Technology">>
        /\ Len(calls[r]) = 10
        /\ calls[r][10].category = "Data Authority and Proprietary Statistics"

\* C29: at every point of a run the briefs stored for its analysis are the first
\* insIdx briefs of the sorted and sliced selection, in descending score order,
\* and each step stores at most one more; so a run whose k-th INSERT failed
\* keeps its first k-1 briefs while the analysis is 'processing', and briefs
\* exist for an analysis before it is 'completed'
PersistedIsPrefixOfSelection ==
    /\ [](\A r \in Runs :
             analysisId[r] # 0 =>
                 LET stored == PersistedOf(analysisId[r]) IN
                 /\ Len(stored) = insIdx[r]
                 /\ insIdx[r] > 0 =>
                        stored = SubSeq(SelectBriefs(gathered[r], formData[r]),
                                        1, insIdx[r])
                 /\ \A k \in 1..(Len(stored) - 1) :
                        stored[k].effort_impact_score >= stored[k + 1].effort_impact_score
                 /\ (pc[r] \in {"insertBrief", "briefEnd", "updateStatus"}
                        \/ response[r] = Caught("insert failed")) =>
                        analyses[analysisId[r]].status = "processing")
    /\ [][ Len(briefsTable') \in {Len(briefsTable), Len(briefsTable) + 1}
           /\ SubSeq(briefsTable', 1, Len(briefsTable)) = briefsTable ]_vars

\* the third INSERT of a run failed: two briefs stay, the analysis is processing
ThirdInsertFailed ==
    \E r \in Runs :
        /\ response[r] = Caught("insert failed")
        /\ Len(sortedBriefs[r]) = 3
        /\ ScoresOf(PersistedOf(analysisId[r])) = <<90, 80>>
        /\ analyses[analysisId[r]].status = "processing"

\* C30: no client is ended twice or ended without having been connected, and
\* when the handler has returned, on whatever path, neither its own client nor
\* the one of generateBriefs is still connected: each connected client was
\* ended once (end() itself not failing)
ConnectedClientsEndedOnce ==
    \A r \in Runs :
        /\ client[r] \in {"none", "connected", "ended"}
        /\ bclient[r] \in {"none", "connected", "ended"}
        /\ response[r].status # 0 => pc[r] = "done"
        /\ pc[r] = "done" => client[r] # "connected" /\ bclient[r] # "connected"
        /\ (pc[r] = "done" /\ analysisId[r] # 0) => client[r] = "ended"
        /\ bclient[r] = "connected" => client[r] = "connected"

\* the first brief INSERT failed and both clients are ended
BothClientsEndedAfterFailure ==
    \E r \in Runs :
        /\ response[r] = Caught("insert failed")
        /\ analysisId[r] # 0
        /\ insIdx[r] = 0
        /\ client[r] = "ended"
        /\ bclient[r] = "ended"

\* C26: verifyPassword is called, once, only for a password that is a non-empty
\* string other than 'admin' and with SHARED_PASSWORD_HASH set to more than 20
\* characters; 'admin' never has the hash consulted and is answered 200 once
\* its session is made; and a password refused, with or without a verification,
\* gets the one answer 401 'Invalid password' whatever the hash setting
HashConsultedOnlyWhenUsable ==
    LET pw == login.password
        hash == env.SHARED_PASSWORD_HASH
        refused == /\ login.pc = "done"
                   /\ pw.kind = "string" /\ pw.value \notin {"", "admin"}
                   /\ ~login.isValid
                   /\ login.response.status # 500
    IN  /\ login.verifyPasswordCalls \in {0, 1}
        /\ login.verifyPasswordCalls = 1 <=>
               /\ pw.kind = "string" /\ pw.value \notin {"", "admin"}
               /\ hash.set /\ hash.length > 20
        /\ (pw.value = "admin" /\ login.pc = "done" /\ sessions = 1) =>
               login.response = LoginResponse(200, "", TRUE)
        /\ refused => login.response = LoginResponse(401, "Invalid password", FALSE)

\* a wrong password refused without verification: the hash has 20 characters
ShortHashIgnored ==
    /\ login.pc = "done"
    /\ login.password = Password("string", "wrong")
    /\ env.SHARED_PASSWORD_HASH = [set |-> TRUE, length |-> 20]
    /\ login.verifyPasswordCalls = 0
    /\ login.response = LoginResponse(401, "Invalid password", FALSE)

\* C21: a request to the logout route whose destroySession failed is answered
\* 500 {error: 'Internal server error'}, and one whose destroySession succeeded
\* is answered 200 {success: true}
LogoutFailureAnswered500 ==
    logout.pc = "done" =>
        IF logout.rejected
        THEN logout.response = LoginResponse(500, "Internal server error", FALSE)
        ELSE logout.response = LoginResponse(200, "", TRUE)

\* the step in which destroySession has removed the cookie
DestroySessionStep ==
    /\ logout.pc = "destroySession"
    /\ logout'.pc = "done"
    /\ ~logout'.rejected

\* C22: verifySession returns true iff the jar holds a 'session' cookie with a
\* value that jwtVerify accepts, and does not call jwtVerify when there is no
\* value; once destroySession has run, verifySession is false and becomes true
\* again only by a createSession, and the middleware turns the dashboard away
SessionVerdictFollowsJar ==
    /\ [](verified.called =>
            /\ verified.result = /\ verified.jar.present
                                 /\ verified.jar.value # ""
                                 /\ jwtVerify(verified.jar.value)
            /\ (~verified.jar.present \/ verified.jar.value = "")
                  => verified.jwtVerifyCalls = 0)
    /\ [][/\ DestroySessionStep =>
               /\ ~verifySession(cookies').result
               /\ middleware(<< "/", "dashboard" >>, cookies') = "redirect"
          /\ (~verifySession(cookies).result /\ verifySession(cookies').result)
                => sessions' = sessions + 1]_vars

\* a session was created and destroyed, and then verifySession said no and
\* the middleware redirected the dashboard
SessionRefusedAfterLogout ==
    /\ sessions >= 1
    /\ logout.pc = "done"
    /\ logout.response.status = 200
    /\ cookies = NoCookie
    /\ verified.called
    /\ verified.jar = NoCookie
    /\ ~verified.result
    /\ nav.path = << "/", "dashboard" >>
    /\ nav.jar = NoCookie
    /\ nav.decision = "redirect"

\* the two public routes, and the paths the middleware takes for static files
\* or internals of the framework
IsPublicPath(pathname) ==
    \/ pathname = << "/" >>
    \/ pathname = << "/", "api", "/", "auth", "/", "login" >>

IsStaticOrInternal(pathname) ==
    \/ Len(pathname) >= 2 /\ pathname[1] = "/" /\ pathname[2] = "_next"
    \/ /\ Len(pathname) >= 4
       /\ pathname[1] = "/" /\ pathname[2] = "api"
       /\ pathname[3] = "/" /\ pathname[4] = "_next"
    \/ \E i \in DOMAIN pathname : pathname[i] = "."

\* C23: the middleware lets every request to a public route through; a request
\* to a path that is neither public nor static or internal is redirected to '/'
\* when it carries no 'session' cookie and let through when it carries one
MiddlewareGatesOnCookiePresence ==
    nav.decision # "none" =>
        /\ IsPublicPath(nav.path) => nav.decision = "next"
        /\ (~IsPublicPath(nav.path) /\ ~IsStaticOrInternal(nav.path)) =>
              nav.decision = IF nav.jar.present THEN "next" ELSE "redirect"

\* the dashboard was asked for without a cookie and the request redirected
DashboardRedirectedWithoutCookie ==
    /\ nav.path = << "/", "dashboard" >>
    /\ ~nav.jar.present
    /\ nav.decision = "redirect"

\* C24: once fetchAnalyses is over the dashboard is no longer loading; when the
\* list route answered 200 with a list, the dashboard shows the customer name
\* and brief count of every analysis of that list, and 'No analyses found' when
\* the list is empty
DashboardShowsReturnedAnalyses ==
    dash.pc = "done" =>
        /\ ~dash.loading
        /\ (dash.fetched = "answered" /\ dash.answer.status = 200) =>
              LET returned == dash.answer.body.items IN
              IF returned = << >>
              THEN Rendered(dash).view = "No analyses found"
              ELSE /\ Rendered(dash).view = "list"
                   /\ Rendered(dash).items =
                         [i \in 1..Len(returned) |->
                             [customer_name |-> returned[i].customer_name,
                              brief_count |-> returned[i].brief_count]]

\* C28: a handler that returns analysis or brief data and is reached by a
\* request whose 'session' cookie is absent or not verifiable answers 401
\* 'Unauthorized' and has read nothing from storage
UnverifiedRequestReadsNothing ==
    (/\ reads.pc = "done"
     /\ reads.answer.status # 307
     /\ ~(reads.jar.present /\ reads.jar.value # "" /\ jwtVerify(reads.jar.value)))
        => /\ reads.answer = ErrorAnswer(401, "Unauthorized")
           /\ reads.queries = 0

====
